---- MODULE Spec2Model ----
(***************************************************************************)
(* Meteora DLMM position simulator: the bin price model, the strategy      *)
(* weights, the amount distribution, getInitialBins and runSimulation.     *)
(*                                                                         *)
(* A JavaScript number is modelled as the exact value n/d * 2^x, with n    *)
(* and d odd and coprime and d > 0; d = 0 encodes the non-finite values    *)
(* (1/0 = Infinity, -1/0 = -Infinity, 0/0 = NaN).  Every arithmetic        *)
(* operation keeps the exponent range of an IEEE double: a result of       *)
(* magnitude 2^1024 or more is Infinity, one below the smallest subnormal  *)
(* 2^-1074 rounds to 0.  The rounding of the 53-bit significand is not     *)
(* modelled, and -0 is not told from 0.                                    *)
(***************************************************************************)
EXTENDS Integers, Sequences, FiniteSets, TLC

\* ------------------------------------------------------------------ bounds

\* how many runSimulation calls a behaviour makes on one initial bin list
MaxCalls == 2
\* bin ids tried by the conversion calls: REFERENCE_BIN_ID - MaxOff .. + MaxOff
MaxOff == 3
\* and, far from the reference bin, REFERENCE_BIN_ID - FarOff and + FarOff
FarOff == 1000
\* how far from the reference bin the ranges and active bins handed to
\* calculateStrategyWeights reach
MaxSide == 5
\* the last page of the pairs endpoint that may ask for a further page
MaxPages == 3

\* ----------------------------------------------------------------- numbers

Abs(x) == IF x < 0 THEN -x ELSE x

Sign(x) == IF x < 0 THEN -1 ELSE IF x > 0 THEN 1 ELSE 0

RECURSIVE GCD(_, _)
GCD(a, b) == IF b = 0 THEN a ELSE GCD(b, a % b)

\* how many times 2 divides k > 0
RECURSIVE TwoAdic(_)
TwoAdic(k) == IF k % 2 = 1 THEN 0 ELSE 1 + TwoAdic(k \div 2)

\* the exact number n/d * 2^x, normalised
Q(n, d, x) ==
  IF d = 0 THEN [n |-> Sign(n), d |-> 0, x |-> 0]
  ELSE IF n = 0 THEN [n |-> 0, d |-> 1, x |-> 0]
  ELSE LET g == GCD(Abs(n), Abs(d))
           n1 == Abs(n) \div g
           d1 == Abs(d) \div g
           tn == TwoAdic(n1)
           td == TwoAdic(d1)
       IN [n |-> Sign(n) * Sign(d) * (n1 \div 2 ^ tn), d |-> d1 \div 2 ^ td,
           x |-> x + tn - td]

\* the number literal n/d
R(n, d) == Q(n, d, 0)

Zero == R(0, 1)
One == R(1, 1)
Infinity == R(1, 0)
NaN == R(0, 0)
\* JSON has no non-finite number: JSON.stringify writes null for them
Null == [n |-> 0, d |-> -1, x |-> 0]

IsNaN(a) == a.n = 0 /\ a.d = 0
IsFinite(a) == a.d > 0

\* floor(log2(n/d)) for n, d > 0, without products that could overflow
RECURSIVE FloorLog2Up(_, _, _)
FloorLog2Up(n, d, l) ==
  IF l < 30 /\ d <= n \div 2 ^ (l + 1) THEN FloorLog2Up(n, d, l + 1) ELSE l

RECURSIVE FloorLog2Down(_, _, _)
FloorLog2Down(n, d, m) ==
  IF m < 30 /\ n < (d + 2 ^ m - 1) \div 2 ^ m THEN FloorLog2Down(n, d, m + 1) ELSE m

FloorLog2(n, d) == IF n >= d THEN FloorLog2Up(n, d, 0) ELSE -FloorLog2Down(n, d, 1)

\* floor(log2(|a|)) for a finite and not 0: the exponent of a as a double
Exponent(a) == a.x + FloorLog2(Abs(a.n), a.d)

\* the double an exact result becomes: Infinity from 2^1024 on, 0 below half of
\* the smallest subnormal 2^-1074 and at that half (ties go to even).  n/d lies
\* within 2^-31 .. 2^31, so the exponent is looked at only when x is extreme.
ToNumber(a) ==
  IF a.d <= 0 \/ a.n = 0 THEN a
  ELSE IF a.x > 31 - 1075 /\ a.x < 1024 - 31 THEN a
  ELSE LET e == Exponent(a)
       IN IF e >= 1024 THEN [n |-> Sign(a.n), d |-> 0, x |-> 0]
          ELSE IF e < -1075 THEN Zero
          ELSE IF e = -1075 /\ Abs(a.n) = 1 /\ a.d = 1 THEN Zero
          ELSE a

RNeg(a) == [n |-> -a.n, d |-> a.d, x |-> a.x]

\* exact products and sums; they cancel common factors first, to keep the
\* integers small
QMul(a, b) ==
  IF a.d = 0 \/ b.d = 0 THEN Q(a.n * b.n, 0, 0)
  ELSE LET g1 == GCD(Abs(a.n), b.d)
           g2 == GCD(Abs(b.n), a.d)
       IN Q((a.n \div g1) * (b.n \div g2), (a.d \div g2) * (b.d \div g1), a.x + b.x)

QInv(a) == Q(a.d, a.n, -a.x)

QAdd(a, b) ==
  IF IsFinite(a) /\ IsFinite(b)
  THEN IF a.n = 0 THEN b
       ELSE IF b.n = 0 THEN a
       ELSE LET g == GCD(a.d, b.d)
                xm == IF a.x < b.x THEN a.x ELSE b.x
            IN Q(a.n * 2 ^ (a.x - xm) * (b.d \div g) + b.n * 2 ^ (b.x - xm) * (a.d \div g),
                 (a.d \div g) * b.d, xm)
  ELSE IF IsNaN(a) \/ IsNaN(b) THEN NaN
  ELSE IF ~IsFinite(a) /\ ~IsFinite(b) THEN (IF a.n = b.n THEN a ELSE NaN)
  ELSE IF ~IsFinite(a) THEN a ELSE b

\* a * b, 1 / a, a / b, a + b, a - b on doubles
RMul(a, b) == ToNumber(QMul(a, b))

RInv(a) == ToNumber(QInv(a))

RDiv(a, b) == IF a.d = 0 /\ b.d = 0 THEN NaN ELSE ToNumber(QMul(a, QInv(b)))

RAdd(a, b) == ToNumber(QAdd(a, b))

RSub(a, b) == RAdd(a, RNeg(b))

\* the sign of n1/d1 - n2/d2 for n1, n2 >= 0 and d1, d2 > 0, by comparing the
\* integer parts and then the remainders (no products, so no overflow)
RECURSIVE FracCmp(_, _, _, _)
FracCmp(n1, d1, n2, d2) ==
  LET q1 == n1 \div d1
      q2 == n2 \div d2
      r1 == n1 % d1
      r2 == n2 % d2
  IN IF q1 # q2 THEN Sign(q1 - q2)
     ELSE IF r1 = 0 /\ r2 = 0 THEN 0
     ELSE IF r1 = 0 THEN -1
     ELSE IF r2 = 0 THEN 1
     ELSE -FracCmp(d1, r1, d2, r2)

\* the sign of a - b for a, b > 0 of the same exponent: by the significands
\* n/d * 2^-l, which lie in [1, 2)
SignificandCmp(a, b) ==
  LET la == FloorLog2(a.n, a.d)
      lb == FloorLog2(b.n, b.d)
  IN FracCmp(IF la >= 0 THEN a.n ELSE a.n * 2 ^ (-la),
             IF la >= 0 THEN a.d * 2 ^ la ELSE a.d,
             IF lb >= 0 THEN b.n ELSE b.n * 2 ^ (-lb),
             IF lb >= 0 THEN b.d * 2 ^ lb ELSE b.d)

\* the sign of a - b for a, b > 0: by the exponents, then by the significands
PosCmp(a, b) ==
  IF a = b THEN 0
  ELSE IF a.x = b.x THEN FracCmp(a.n, a.d, b.n, b.d)
  ELSE LET ea == Exponent(a)
           eb == Exponent(b)
       IN IF ea # eb THEN Sign(ea - eb) ELSE SignificandCmp(a, b)

\* the sign of a - b for finite a and b
RCmp(a, b) ==
  IF Sign(a.n) # Sign(b.n) THEN Sign(Sign(a.n) - Sign(b.n))
  ELSE IF a.n = 0 THEN 0
  ELSE IF a.n > 0 THEN PosCmp(a, b)
  ELSE PosCmp(RNeg(b), RNeg(a))

\* a < b, a <= b, a > b as JavaScript compares numbers (false on NaN)
RLt(a, b) ==
  IF IsNaN(a) \/ IsNaN(b) THEN FALSE
  ELSE IF a.d = 0 /\ b.d = 0 THEN a.n < b.n
  ELSE IF a.d = 0 THEN a.n < 0
  ELSE IF b.d = 0 THEN b.n > 0
  ELSE RCmp(a, b) < 0

RLe(a, b) ==
  IF IsNaN(a) \/ IsNaN(b) THEN FALSE
  ELSE IF a.d = 0 /\ b.d = 0 THEN a.n <= b.n
  ELSE IF a.d = 0 THEN a.n < 0
  ELSE IF b.d = 0 THEN b.n > 0
  ELSE RCmp(a, b) <= 0

RGt(a, b) == RLt(b, a)

RAbs(a) == [n |-> Abs(a.n), d |-> a.d, x |-> a.x]

\* b^e for integers, e >= 0, by squaring
RECURSIVE IntPow(_, _)
IntPow(b, e) ==
  IF e = 0 THEN 1
  ELSE LET h == IntPow(b, e \div 2)
       IN IF e % 2 = 0 THEN h * h ELSE h * h * b

\* xs.reduce((sum, x) => sum + x, acc) over the elements i.. of a sequence
RECURSIVE RSumFrom(_, _, _)
RSumFrom(xs, i, acc) ==
  IF i > Len(xs) THEN acc ELSE RSumFrom(xs, i + 1, RAdd(acc, xs[i]))

RSum(xs) == RSumFrom(xs, 1, Zero)

\* the exact power b^e for an integer exponent e
QPow(b, e) ==
  IF e >= 0 THEN Q(IntPow(b.n, e), IntPow(b.d, e), b.x * e)
  ELSE Q(IntPow(b.d, -e), IntPow(b.n, -e), b.x * e)

\* Math.pow(b, e) for an integer exponent e
RPow(b, e) == ToNumber(QPow(b, e))

\* Decimal.pow(10, k): a Decimal, exact
Pow10(k) == QPow(R(10, 1), k)

\* Math.round(Math.log(x) / Math.log(b)) for finite x > 0 and b > 1: the integer
\* k with k - 1/2 <= log_b(x) < k + 1/2, that is b^(2k-1) <= x^2 < b^(2k+1),
\* searched from k upwards or downwards
RECURSIVE RoundLogFrom(_, _, _)
RoundLogFrom(xx, b, k) ==
  IF RLt(xx, QPow(b, 2 * k - 1)) THEN RoundLogFrom(xx, b, k - 1)
  ELSE IF RLe(QPow(b, 2 * k + 1), xx) THEN RoundLogFrom(xx, b, k + 1)
  ELSE k

RoundLog(x, b) ==
  RoundLogFrom(QMul(x, x), b, IF Exponent(b) > 0 THEN Exponent(x) \div Exponent(b) ELSE 0)

\* ------------------------------------------------------------ BinPriceModel

REFERENCE_BIN_ID == 262144

\* A call's outcome is the value returned, the warnings written to the console
\* and whether the call threw.

\* getPriceFromBinId with the exponent's sign reversed
getPriceFromBinIdReversed(binId, binStep, baseDecimals, quoteDecimals, applyDecimalAdjustment) ==
  LET pricePerLamport == RPow(R(10000 + binStep, 10000), REFERENCE_BIN_ID - binId)
  IN [value |-> IF applyDecimalAdjustment
                THEN RMul(pricePerLamport, Pow10(baseDecimals - quoteDecimals))
                ELSE pricePerLamport,
      warned |-> 0, threw |-> FALSE]

getPriceFromBinId(binId, binStep, baseDecimals, quoteDecimals, applyDecimalAdjustment) ==
  LET basis == R(10000 + binStep, 10000)
      exponent == binId - REFERENCE_BIN_ID
      pricePerLamport == RPow(basis, exponent)
      decimalAdjustment == baseDecimals - quoteDecimals
  IN [value |-> IF applyDecimalAdjustment
                THEN RMul(pricePerLamport, Pow10(decimalAdjustment))
                ELSE pricePerLamport,
      warned |-> 0, threw |-> FALSE]

\* getBinIdFromPrice without the reference offset of line 314
getBinIdFromPriceNoReference(price, binStep, baseDecimals, quoteDecimals, applyDecimalAdjustment) ==
  IF RLe(price, Zero) \/ binStep <= 0
  THEN [value |-> 0, warned |-> 1, threw |-> FALSE]
  ELSE [value |-> RoundLog(IF applyDecimalAdjustment
                           THEN RMul(price, Pow10(-(baseDecimals - quoteDecimals)))
                           ELSE price,
                           R(10000 + binStep, 10000)),
        warned |-> 0, threw |-> FALSE]

\* getBinIdFromPrice throwing on an invalid input instead of warning
getBinIdFromPriceThrows(price, binStep, baseDecimals, quoteDecimals, applyDecimalAdjustment) ==
  IF RLe(price, Zero) \/ binStep <= 0
  THEN [value |-> 0, warned |-> 0, threw |-> TRUE]
  ELSE [value |-> RoundLog(IF applyDecimalAdjustment
                           THEN RMul(price, Pow10(-(baseDecimals - quoteDecimals)))
                           ELSE price,
                           R(10000 + binStep, 10000)) + REFERENCE_BIN_ID,
        warned |-> 0, threw |-> FALSE]

\* lines 281-317; the logarithm is taken of a finite pricePerLamport > 0, which is
\* what every valid price of this model gives
getBinIdFromPrice(price, binStep, baseDecimals, quoteDecimals, applyDecimalAdjustment) ==
  IF RLe(price, Zero) \/ binStep <= 0
  THEN [value |-> 0, warned |-> 1, threw |-> FALSE]
  ELSE LET decimalAdjustment == baseDecimals - quoteDecimals
           pricePerLamport == IF applyDecimalAdjustment
                              THEN RMul(price, Pow10(-decimalAdjustment))
                              ELSE price
           basis == R(10000 + binStep, 10000)
           binId == RoundLog(pricePerLamport, basis)
       IN [value |-> binId + REFERENCE_BIN_ID, warned |-> 0, threw |-> FALSE]

\* getPriceFromId, getIdFromPrice: the wrappers getInitialBins calls
getPriceFromId(id, binStep, baseDecimals, quoteDecimals, applyDecimalAdjustment) ==
  getPriceFromBinId(id, binStep, baseDecimals, quoteDecimals, applyDecimalAdjustment).value

getIdFromPrice(price, binStep, baseDecimals, quoteDecimals, applyDecimalAdjustment) ==
  getBinIdFromPrice(price, binStep, baseDecimals, quoteDecimals, applyDecimalAdjustment).value

\* ---------------------------------------------------------- DecimalInference

\* the keys of TOKEN_DECIMALS_BY_ADDRESS (lines 367-371)
SOL == "So11111111111111111111111111111111111111112"

USDC == "EPjFWdd5AufqSSqeM2qN1xzybapC8G4wEGGkZwyTDt1v"

TOKEN_DECIMALS_BY_ADDRESS == [address \in {SOL, USDC} |-> IF address = SOL THEN 9 ELSE 6]

\* TOKEN_DECIMALS_BY_ADDRESS is an object literal, so reading it at a key it does
\* not own falls through to Object.prototype: two of the keys found there, whose
\* values are functions
InheritedKeys == {"constructor", "toString"}

\* the values a read of the registry gives
JsNumber(k) == [type |-> "number", value |-> k]

JsFunction == [type |-> "function", value |-> 0]

Undefined == [type |-> "undefined", value |-> 0]

\* TOKEN_DECIMALS_BY_ADDRESS[address]
RegistryGet(address) ==
  IF address \in DOMAIN TOKEN_DECIMALS_BY_ADDRESS
  THEN JsNumber(TOKEN_DECIMALS_BY_ADDRESS[address])
  ELSE IF address \in InheritedKeys THEN JsFunction ELSE Undefined

\* lines 390-395: TOKEN_DECIMALS_BY_ADDRESS[address] ?? defaultDecimals
getTokenDecimalsByAddress(address, defaultDecimals) ==
  IF RegistryGet(address) = Undefined THEN JsNumber(defaultDecimals) ELSE RegistryGet(address)

Max(a, b) == IF a >= b THEN a ELSE b

Min(a, b) == IF a <= b THEN a ELSE b

\* lines 447-457: testBaseDecimals.  Of a base decimals that is no number the
\* bounds of the loop are NaN and the loop does not run; the base token is known
\* in that case anyway.
TestBaseDecimals(mintX, baseDecimalsFromAddress) ==
  IF RegistryGet(mintX) = Undefined
  THEN LET lo == Max(0, baseDecimalsFromAddress.value - 3)
           hi == Min(18, baseDecimalsFromAddress.value + 3)
       IN <<baseDecimalsFromAddress>> \o
          [i \in 1 .. (hi - lo) |->
             JsNumber(IF lo + i - 1 >= baseDecimalsFromAddress.value
                      THEN lo + i ELSE lo + i - 1)]
  ELSE <<baseDecimalsFromAddress>>

\* lines 464-470: Math.abs(apiPrice - binPrice) for one candidate; threw when one
\* of the conversions raised.  With decimals that are no numbers the decimal
\* adjustment is NaN and so are the adjusted lamport price, the bin id and the
\* bin's price; without the adjustment the decimals are not read.
CandidateDifference(apiPrice, binStep, baseDecimals, quoteDecimals, useAdjustment) ==
  IF useAdjustment /\ (baseDecimals.type # "number" \/ quoteDecimals.type # "number")
  THEN [value |-> NaN, threw |-> FALSE]
  ELSE LET b == IF baseDecimals.type = "number" THEN baseDecimals.value ELSE 0
           q == IF quoteDecimals.type = "number" THEN quoteDecimals.value ELSE 0
           binId == getBinIdFromPrice(apiPrice, binStep, b, q, useAdjustment)
           binPrice == getPriceFromBinId(binId.value, binStep, b, q, useAdjustment)
       IN [value |-> RAbs(RSub(apiPrice, binPrice.value)),
           threw |-> binId.threw \/ binPrice.threw]

\* the best so far when a difference equal to the smallest replaces it too
BetterOrEqual(best, baseDecimals, useAdjustment, r) ==
  IF ~r.threw /\ RLe(r.value, best.smallestDifference)
  THEN [smallestDifference |-> r.value,
        bestBaseDecimals |-> baseDecimals,
        bestApplyAdjustment |-> useAdjustment,
        evaluated |-> best.evaluated + 1]
  ELSE [best EXCEPT !.evaluated = @ + 1]

\* lines 472-476: the best so far after a trial of difference r
Better(best, baseDecimals, useAdjustment, r) ==
  IF ~r.threw /\ RLt(r.value, best.smallestDifference)
  THEN [smallestDifference |-> r.value,
        bestBaseDecimals |-> baseDecimals,
        bestApplyAdjustment |-> useAdjustment,
        evaluated |-> best.evaluated + 1]
  ELSE [best EXCEPT !.evaluated = @ + 1]

\* lines 460-482: the candidates from the i-th on, each tried with the adjustment
\* (trial 1) and without it (trial 2); a candidate that raises is left
RECURSIVE TryCandidates(_, _, _, _, _, _, _)
TryNext(apiPrice, binStep, quoteDecimals, candidates, i, trial, best, r) ==
  IF r.threw \/ trial = 2
  THEN TryCandidates(apiPrice, binStep, quoteDecimals, candidates, i + 1, 1,
                     Better(best, candidates[i], trial = 1, r))
  ELSE TryCandidates(apiPrice, binStep, quoteDecimals, candidates, i, 2,
                     Better(best, candidates[i], trial = 1, r))

TryCandidates(apiPrice, binStep, quoteDecimals, candidates, i, trial, best) ==
  IF i > Len(candidates) THEN best
  ELSE TryNext(apiPrice, binStep, quoteDecimals, candidates, i, trial, best,
               CandidateDifference(apiPrice, binStep, candidates[i], quoteDecimals, trial = 1))

\* lines 441-489: the search among the candidates; evaluated counts the
\* candidate trials made
SearchDecimals(apiPrice, binStep, mintX, mintY) ==
  LET baseDecimalsFromAddress == getTokenDecimalsByAddress(mintX, 9)
      assumedQuoteDecimals == getTokenDecimalsByAddress(mintY, 6)
      best == TryCandidates(apiPrice, binStep, assumedQuoteDecimals,
                            TestBaseDecimals(mintX, baseDecimalsFromAddress), 1, 1,
                            [smallestDifference |-> Infinity,
                             bestBaseDecimals |-> JsNumber(9),
                             bestApplyAdjustment |-> TRUE,
                             evaluated |-> 0])
  IN [baseDecimals |-> best.bestBaseDecimals,
      quoteDecimals |-> assumedQuoteDecimals,
      applyDecimalAdjustment |-> best.bestApplyAdjustment,
      evaluated |-> best.evaluated, threw |-> FALSE]

\* reverseEngineerDecimals that searches even when it knows both tokens (lines
\* 432-439 left out)
reverseEngineerDecimalsAlwaysSearching(apiPrice, binStep, mintX, mintY) ==
  SearchDecimals(apiPrice, binStep, mintX, mintY)

\* lines 422-490
reverseEngineerDecimals(apiPrice, binStep, mintX, mintY) ==
  IF RegistryGet(mintX) # Undefined /\ RegistryGet(mintY) # Undefined
  THEN [baseDecimals |-> getTokenDecimalsByAddress(mintX, 9),
        quoteDecimals |-> getTokenDecimalsByAddress(mintY, 6),
        applyDecimalAdjustment |-> TRUE,
        evaluated |-> 0, threw |-> FALSE]
  ELSE SearchDecimals(apiPrice, binStep, mintX, mintY)

\* ------------------------------------------------- StrategyWeightCalculator

\* calculateStrategyWeights whose bid-ask base side counts its distance from the
\* first base bin (line 53 without the + 1)
calculateStrategyWeightsBaseFromZero(strategy, minBinId, maxBinId, activeBinId) ==
  CASE strategy = "spot" ->
         [id \in minBinId .. maxBinId |-> 1]
    [] strategy = "bid-ask" ->
         [id \in (minBinId .. activeBinId) \cup ((activeBinId + 1) .. maxBinId) |->
            IF id <= activeBinId THEN (activeBinId - id) + 1 ELSE id - activeBinId]
    [] strategy = "curve" ->
         LET quoteBinsCount == activeBinId - minBinId
             baseBinsCount == maxBinId - activeBinId
         IN [id \in (minBinId .. activeBinId) \cup ((activeBinId + 1) .. maxBinId) |->
               IF id <= activeBinId
               THEN Max(IF quoteBinsCount > 0 THEN quoteBinsCount - (activeBinId - id) ELSE 1, 1)
               ELSE Max(IF baseBinsCount > 0 THEN baseBinsCount - (id - activeBinId) ELSE 1, 1)]

\* the Map of bin id to weight, as a function on the ids the loops set
calculateStrategyWeights(strategy, minBinId, maxBinId, activeBinId) ==
  CASE strategy = "spot" ->
         [id \in minBinId .. maxBinId |-> 1]
    [] strategy = "bid-ask" ->
         [id \in (minBinId .. activeBinId) \cup ((activeBinId + 1) .. maxBinId) |->
            IF id <= activeBinId THEN (activeBinId - id) + 1 ELSE (id - activeBinId) + 1]
    [] strategy = "curve" ->
         LET quoteBinsCount == activeBinId - minBinId
             baseBinsCount == maxBinId - activeBinId
         IN [id \in (minBinId .. activeBinId) \cup ((activeBinId + 1) .. maxBinId) |->
               IF id <= activeBinId
               THEN Max(IF quoteBinsCount > 0 THEN quoteBinsCount - (activeBinId - id) ELSE 1, 1)
               ELSE Max(IF baseBinsCount > 0 THEN baseBinsCount - (id - activeBinId) ELSE 1, 1)]

\* ---------------------------------------------------------- AmountDistributor

RECURSIVE SumWeights(_, _)
SumWeights(weights, ids) ==
  IF ids = {} THEN 0
  ELSE LET id == CHOOSE x \in ids : TRUE
       IN weights[id] + SumWeights(weights, ids \ {id})

ZeroAmounts == [baseAmount |-> Zero, quoteAmount |-> Zero, valueInQuote |-> Zero]

\* binPrices.get(id)!: undefined, NaN in arithmetic, for an id the map lacks
PriceOf(binPrices, id) == IF id \in DOMAIN binPrices THEN binPrices[id] ELSE NaN

\* the quote tokens of one quote-side bin when the bin's weight is left out
QuoteShareUnweighted(totalQuoteAmount, weight, totalQuoteWeight) ==
  IF totalQuoteWeight > 0 /\ RGt(totalQuoteAmount, Zero)
  THEN LET amount == RDiv(totalQuoteAmount, R(totalQuoteWeight, 1))
       IN [baseAmount |-> Zero, quoteAmount |-> amount, valueInQuote |-> amount]
  ELSE ZeroAmounts

\* the quote tokens of one quote-side bin (lines 121-136)
QuoteShare(totalQuoteAmount, weight, totalQuoteWeight) ==
  IF totalQuoteWeight > 0 /\ RGt(totalQuoteAmount, Zero)
  THEN LET amount == RDiv(RMul(totalQuoteAmount, R(weight, 1)), R(totalQuoteWeight, 1))
       IN [baseAmount |-> Zero, quoteAmount |-> amount, valueInQuote |-> amount]
  ELSE ZeroAmounts

\* the base tokens of one base-side bin when spot shares the base amount by
\* weight as the other strategies do
BaseShareByWeight(totalBaseAmount, totalQuoteAmount, weight, totalBaseWeight, nQuoteBins, binPrice, strategy, initialPrice) ==
  IF totalBaseWeight > 0 /\ RGt(totalBaseAmount, Zero)
  THEN LET totalValue == RMul(totalBaseAmount, initialPrice)
           targetValue == RMul(totalValue, R(weight, totalBaseWeight))
           amount == RDiv(targetValue, binPrice)
       IN [baseAmount |-> amount, quoteAmount |-> Zero, valueInQuote |-> targetValue]
  ELSE ZeroAmounts

\* the base tokens of one base-side bin (lines 139-180)
BaseShare(totalBaseAmount, totalQuoteAmount, weight, totalBaseWeight, nQuoteBins, binPrice, strategy, initialPrice) ==
  IF totalBaseWeight > 0 /\ RGt(totalBaseAmount, Zero)
  THEN IF strategy = "spot"
       THEN LET constantValue == IF nQuoteBins > 0
                                 THEN RDiv(totalQuoteAmount, R(nQuoteBins, 1))
                                 ELSE Zero
                amount == RDiv(constantValue, binPrice)
            IN [baseAmount |-> amount, quoteAmount |-> Zero,
                valueInQuote |-> RMul(amount, initialPrice)]
       ELSE LET totalValue == RMul(totalBaseAmount, initialPrice)
                targetValue == RMul(totalValue, R(weight, totalBaseWeight))
                amount == RDiv(targetValue, binPrice)
            IN [baseAmount |-> amount, quoteAmount |-> Zero, valueInQuote |-> targetValue]
  ELSE ZeroAmounts

weightsToAmounts(weights, totalBaseAmount, totalQuoteAmount, activeBinId, binPrices, strategy, initialPrice) ==
  LET quoteBins == {id \in DOMAIN weights : id <= activeBinId}
      baseBins == {id \in DOMAIN weights : id > activeBinId}
      totalQuoteWeight == SumWeights(weights, quoteBins)
      totalBaseWeight == SumWeights(weights, baseBins)
  IN [id \in DOMAIN weights |->
        IF id <= activeBinId
        THEN QuoteShare(totalQuoteAmount, weights[id], totalQuoteWeight)
        ELSE BaseShare(totalBaseAmount, totalQuoteAmount, weights[id], totalBaseWeight,
                       Cardinality(quoteBins), PriceOf(binPrices, id), strategy,
                       initialPrice)]

\* ------------------------------------------------ PositionBuilder (getInitialBins)

\* the validation of line 92
IsInvalidParamsStrictRange(p) ==
  \/ RLe(p.lowerPrice, Zero)
  \/ RLt(p.upperPrice, p.lowerPrice)
  \/ p.binStep <= 0
  \/ RLe(p.initialPrice, Zero)

IsInvalidParams(p) ==
  \/ RLe(p.lowerPrice, Zero)
  \/ RLe(p.upperPrice, p.lowerPrice)
  \/ p.binStep <= 0
  \/ RLe(p.initialPrice, Zero)

\* the bin records when the split between quote and base is moved into the range
BuildBinsActiveClamped(p, minId, maxId, activeBinId, binPrices, amounts) ==
  [i \in 1 .. Max(maxId - minId + 1, 0) |->
     LET id == minId + i - 1
         price == binPrices[id]
         amount == IF id \in DOMAIN amounts THEN amounts[id] ELSE ZeroAmounts
         isQuoteBin == id <= Max(minId, Min(maxId - 1, activeBinId))
         tokenType == IF isQuoteBin THEN "quote" ELSE "base"
         tokenAmount == IF isQuoteBin THEN amount.quoteAmount ELSE amount.baseAmount
         decimalAdjustment == p.quoteDecimals - p.baseDecimals
     IN [id |-> id,
         price |-> price,
         pricePerLamport |-> RMul(price, Pow10(decimalAdjustment)),
         initialTokenType |-> tokenType,
         initialAmount |-> tokenAmount,
         initialValueInQuote |-> amount.valueInQuote,
         displayValue |-> amount.valueInQuote,
         currentTokenType |-> tokenType,
         currentAmount |-> tokenAmount,
         currentValueInQuote |-> amount.valueInQuote]]

\* the bin records when the active bin counts as a base bin
BuildBinsActiveAsBase(p, minId, maxId, activeBinId, binPrices, amounts) ==
  [i \in 1 .. Max(maxId - minId + 1, 0) |->
     LET id == minId + i - 1
         price == binPrices[id]
         amount == IF id \in DOMAIN amounts THEN amounts[id] ELSE ZeroAmounts
         isQuoteBin == id < activeBinId
         tokenType == IF isQuoteBin THEN "quote" ELSE "base"
         tokenAmount == IF isQuoteBin THEN amount.quoteAmount ELSE amount.baseAmount
         decimalAdjustment == p.quoteDecimals - p.baseDecimals
     IN [id |-> id,
         price |-> price,
         pricePerLamport |-> RMul(price, Pow10(decimalAdjustment)),
         initialTokenType |-> tokenType,
         initialAmount |-> tokenAmount,
         initialValueInQuote |-> amount.valueInQuote,
         displayValue |-> amount.valueInQuote,
         currentTokenType |-> tokenType,
         currentAmount |-> tokenAmount,
         currentValueInQuote |-> amount.valueInQuote]]

\* the bin records of lines 128-154, one per id of minId..maxId, in id order
BuildBins(p, minId, maxId, activeBinId, binPrices, amounts) ==
  [i \in 1 .. Max(maxId - minId + 1, 0) |->
     LET id == minId + i - 1
         price == binPrices[id]
         amount == IF id \in DOMAIN amounts THEN amounts[id] ELSE ZeroAmounts
         isQuoteBin == id <= activeBinId
         tokenType == IF isQuoteBin THEN "quote" ELSE "base"
         tokenAmount == IF isQuoteBin THEN amount.quoteAmount ELSE amount.baseAmount
         decimalAdjustment == p.quoteDecimals - p.baseDecimals
     IN [id |-> id,
         price |-> price,
         pricePerLamport |-> RMul(price, Pow10(decimalAdjustment)),
         initialTokenType |-> tokenType,
         initialAmount |-> tokenAmount,
         initialValueInQuote |-> amount.valueInQuote,
         displayValue |-> amount.valueInQuote,
         currentTokenType |-> tokenType,
         currentAmount |-> tokenAmount,
         currentValueInQuote |-> amount.valueInQuote]]

\* bins.reduce of lines 158-159: the sum of initialAmount over the bins of one
\* token type
SumInitial(bins, tokenType) ==
  RSum([i \in 1 .. Len(bins) |->
          IF bins[i].initialTokenType = tokenType THEN bins[i].initialAmount ELSE Zero])

\* lines 161-176 with the spot branch (line 168) valuing like bid-ask and curve
NormalizeBaseAtMarketPrice(bins, baseAmount, strategy) ==
  LET calculatedBaseSum == SumInitial(bins, "base")
  IN IF RGt(baseAmount, Zero) /\ RGt(calculatedBaseSum, Zero)
     THEN LET baseCorrectionFactor == RDiv(baseAmount, calculatedBaseSum)
          IN [i \in 1 .. Len(bins) |->
                IF bins[i].initialTokenType = "base"
                THEN [bins[i] EXCEPT
                        !.initialAmount = RMul(@, baseCorrectionFactor),
                        !.initialValueInQuote = RMul(@, baseCorrectionFactor)]
                ELSE bins[i]]
     ELSE bins

\* lines 161-176
NormalizeBase(bins, baseAmount, strategy) ==
  LET calculatedBaseSum == SumInitial(bins, "base")
  IN IF RGt(baseAmount, Zero) /\ RGt(calculatedBaseSum, Zero)
     THEN LET baseCorrectionFactor == RDiv(baseAmount, calculatedBaseSum)
          IN [i \in 1 .. Len(bins) |->
                IF bins[i].initialTokenType = "base"
                THEN LET amt == RMul(bins[i].initialAmount, baseCorrectionFactor)
                     IN [bins[i] EXCEPT
                           !.initialAmount = amt,
                           !.initialValueInQuote =
                              IF strategy = "spot" THEN RMul(amt, bins[i].price)
                              ELSE RMul(@, baseCorrectionFactor)]
                ELSE bins[i]]
     ELSE bins

\* lines 178-186, without the rescaling
NormalizeQuoteSkipped(bins, quoteAmount) == bins

\* lines 178-186
NormalizeQuote(bins, quoteAmount) ==
  LET calculatedQuoteSum == SumInitial(bins, "quote")
  IN IF RGt(quoteAmount, Zero) /\ RGt(calculatedQuoteSum, Zero)
     THEN LET quoteCorrectionFactor == RDiv(quoteAmount, calculatedQuoteSum)
          IN [i \in 1 .. Len(bins) |->
                IF bins[i].initialTokenType = "quote"
                THEN LET amt == RMul(bins[i].initialAmount, quoteCorrectionFactor)
                     IN [bins[i] EXCEPT !.initialAmount = amt, !.initialValueInQuote = amt]
                ELSE bins[i]]
     ELSE bins

\* lines 189-191
SetDisplayValue(bins) ==
  [i \in 1 .. Len(bins) |-> [bins[i] EXCEPT !.displayValue = bins[i].initialValueInQuote]]

\* bins.sort((a, b) => a.price - b.price): a stable sort, by insertion
RECURSIVE InsertByPrice(_, _)
InsertByPrice(sorted, bin) ==
  IF sorted = <<>> THEN <<bin>>
  ELSE IF RLt(bin.price, sorted[Len(sorted)].price)
       THEN Append(InsertByPrice(SubSeq(sorted, 1, Len(sorted) - 1), bin), sorted[Len(sorted)])
       ELSE Append(sorted, bin)

RECURSIVE SortByPriceFrom(_, _)
SortByPriceFrom(bins, n) ==
  IF n = 0 THEN <<>> ELSE InsertByPrice(SortByPriceFrom(bins, n - 1), bins[n])

SortByPrice(bins) == SortByPriceFrom(bins, Len(bins))

\* the outcome of getInitialBins(params): the bin list returned, whether it threw
getInitialBins(p) ==
  IF IsInvalidParams(p) THEN [bins |-> <<>>, threw |-> FALSE]
  ELSE
    LET minId == getIdFromPrice(p.lowerPrice, p.binStep, p.baseDecimals, p.quoteDecimals,
                                p.applyDecimalAdjustment)
        maxId == getIdFromPrice(p.upperPrice, p.binStep, p.baseDecimals, p.quoteDecimals,
                                p.applyDecimalAdjustment)
        activeBinId == getIdFromPrice(p.initialPrice, p.binStep, p.baseDecimals,
                                      p.quoteDecimals, p.applyDecimalAdjustment)
        weights == calculateStrategyWeights(p.strategy, minId, maxId, activeBinId)
        binPrices == [id \in minId .. maxId |->
                        getPriceFromId(id, p.binStep, p.baseDecimals, p.quoteDecimals,
                                       p.applyDecimalAdjustment)]
        amounts == weightsToAmounts(weights, p.baseAmount, p.quoteAmount, activeBinId,
                                    binPrices, p.strategy, p.initialPrice)
        bins0 == BuildBins(p, minId, maxId, activeBinId, binPrices, amounts)
        \* both sums are taken before either correction is applied
        bins1 == NormalizeBase(bins0, p.baseAmount, p.strategy)
        bins2 == NormalizeQuote(bins1, p.quoteAmount)
    IN [bins |-> SortByPrice(SetDisplayValue(bins2)), threw |-> FALSE]

\* ------------------------------------------------ PriceSimulator (runSimulation)

NumberFields ==
  {"price", "pricePerLamport", "initialAmount", "initialValueInQuote", "displayValue",
   "currentAmount", "currentValueInQuote"}

\* JSON.parse(JSON.stringify(bin)): a non-finite number comes back as null
JsonCopy(bin) ==
  [f \in DOMAIN bin |->
     IF f \in NumberFields /\ ~IsFinite(bin[f]) THEN Null ELSE bin[f]]

\* line 226 without the copy: simBin is the caller's record itself
SimBinAddressAliased(h, bins, i) == bins[i]

\* line 226: the callback's simBin for bins[i] is a new record, the i-th this
\* call allocates
SimBinAddress(h, bins, i) == Len(h) + i

\* line 237 with >= for >
PriceIsAboveBinOrEqual(currentPrice, binPrice) == RLe(binPrice, currentPrice)

\* line 237 with the comparison turned round: currentPrice < simBin.price
PriceIsBelowBin(currentPrice, binPrice) == RLt(currentPrice, binPrice)

\* line 237: currentPrice > simBin.price
PriceIsAboveBin(currentPrice, binPrice) == RGt(currentPrice, binPrice)

\* the callback when a bin keeps the token it was funded with and is only valued
\* at the current price
SimulateBinKeepingType(simBin, currentPrice) ==
  IF RLe(simBin.initialAmount, Zero)
  THEN [simBin EXCEPT !.currentAmount = Zero,
                      !.currentValueInQuote = Zero,
                      !.currentTokenType = simBin.initialTokenType,
                      !.displayValue = Zero]
  ELSE [simBin EXCEPT !.currentTokenType = simBin.initialTokenType,
                      !.currentAmount = simBin.initialAmount,
                      !.currentValueInQuote =
                         IF simBin.initialTokenType = "base"
                         THEN RMul(simBin.initialAmount, currentPrice)
                         ELSE simBin.initialAmount]

\* lines 228-265: what the callback does to the copy
SimulateBin(simBin, currentPrice) ==
  IF RLe(simBin.initialAmount, Zero)
  THEN [simBin EXCEPT !.currentAmount = Zero,
                      !.currentValueInQuote = Zero,
                      !.currentTokenType = simBin.initialTokenType,
                      !.displayValue = Zero]
  ELSE
    LET above == PriceIsAboveBin(currentPrice, simBin.price)
        tokenType == IF above THEN "quote" ELSE "base"
        amount == IF above
                  THEN IF simBin.initialTokenType = "base"
                       THEN RMul(simBin.initialAmount, simBin.price)
                       ELSE simBin.initialAmount
                  ELSE IF simBin.initialTokenType = "quote"
                       THEN RDiv(simBin.initialAmount, simBin.price)
                       ELSE simBin.initialAmount
    IN [simBin EXCEPT !.currentTokenType = tokenType,
                      !.currentAmount = amount,
                      !.currentValueInQuote =
                         IF tokenType = "base" THEN RMul(amount, currentPrice) ELSE amount]

\* initialBins.map(...) with a callback that, besides returning its copy, leaves
\* the outcome in the caller's bin as that bin's new initial holding
HeapAfterMapCarriedOver(h, bins, currentPrice) ==
  LET top == Max(Len(h), SimBinAddress(h, bins, Len(bins)))
  IN [a \in 1 .. top |->
        IF \E i \in 1 .. Len(bins) : SimBinAddress(h, bins, i) = a
        THEN LET i == CHOOSE i \in 1 .. Len(bins) : SimBinAddress(h, bins, i) = a
             IN SimulateBin(JsonCopy(h[bins[i]]), currentPrice)
        ELSE IF \E i \in 1 .. Len(bins) : bins[i] = a
             THEN [h[a] EXCEPT
                     !.initialAmount = SimulateBin(h[a], currentPrice).currentAmount,
                     !.initialTokenType = SimulateBin(h[a], currentPrice).currentTokenType]
             ELSE h[a]]

\* initialBins.map(...): the heap once the callback has run on every bin
HeapAfterMap(h, bins, currentPrice) ==
  LET top == Max(Len(h), SimBinAddress(h, bins, Len(bins)))
  IN [a \in 1 .. top |->
        IF \E i \in 1 .. Len(bins) : SimBinAddress(h, bins, i) = a
        THEN LET i == CHOOSE i \in 1 .. Len(bins) : SimBinAddress(h, bins, i) = a
             IN SimulateBin(JsonCopy(h[bins[i]]), currentPrice)
        ELSE h[a]]

\* line 269 with the tolerance left out: bin.currentAmount > 0
AboveZero(a) == RGt(a, Zero)

\* line 269: bin.currentAmount > 1e-12, the tolerance for floating point dust
AboveDust(a) == RGt(a, Pow10(-12))

ZeroAnalysis ==
  [totalValueInQuote |-> Zero, totalBase |-> Zero, totalQuote |-> Zero,
   totalBins |-> 0, baseBins |-> 0, quoteBins |-> 0]

\* lines 268-280: simulatedBins.reduce, its sums taken in list order; totalBins
\* is counted on the caller's records, after the map
Analyse(h, bins, simulated) ==
  LET n == Len(simulated)
      Counted(i, tokenType) ==
        /\ AboveDust(h[simulated[i]].currentAmount)
        /\ h[simulated[i]].currentTokenType = tokenType
  IN [totalValueInQuote |->
        RSum([i \in 1 .. n |-> IF AboveDust(h[simulated[i]].currentAmount)
                               THEN h[simulated[i]].currentValueInQuote ELSE Zero]),
      totalBase |->
        RSum([i \in 1 .. n |-> IF Counted(i, "base")
                               THEN h[simulated[i]].currentAmount ELSE Zero]),
      totalQuote |->
        RSum([i \in 1 .. n |-> IF AboveDust(h[simulated[i]].currentAmount)
                                  /\ h[simulated[i]].currentTokenType # "base"
                               THEN h[simulated[i]].currentAmount ELSE Zero]),
      totalBins |-> Cardinality({i \in 1 .. Len(bins) : RGt(h[bins[i]].initialAmount, Zero)}),
      baseBins |-> Cardinality({i \in 1 .. n : Counted(i, "base")}),
      quoteBins |-> Cardinality({i \in 1 .. n :
                                   /\ AboveDust(h[simulated[i]].currentAmount)
                                   /\ h[simulated[i]].currentTokenType # "base"})]

\* the result when the analysis values the base holdings only
SimulationResultBaseValueOnly(h, bins, simulated) ==
  [heap |-> h, simulatedBins |-> simulated,
   analysis |-> [Analyse(h, bins, simulated) EXCEPT
                   !.totalValueInQuote = RSub(@, Analyse(h, bins, simulated).totalQuote)],
   threw |-> FALSE]

\* what runSimulation returns (line 282), with the heap its records are on
SimulationResult(h, bins, simulated) ==
  [heap |-> h, simulatedBins |-> simulated, analysis |-> Analyse(h, bins, simulated),
   threw |-> FALSE]

\* runSimulation simulating at its initialPrice argument
runSimulationAtInitialPrice(h, bins, currentPrice, initialPrice, baseDecimals, quoteDecimals) ==
  IF Len(bins) = 0
  THEN [heap |-> h, simulatedBins |-> <<>>, analysis |-> ZeroAnalysis, threw |-> FALSE]
  ELSE SimulationResult(HeapAfterMap(h, bins, initialPrice), bins,
                        [i \in 1 .. Len(bins) |-> SimBinAddress(h, bins, i)])

\* runSimulation(initialBins, currentPrice, initialPrice, baseDecimals, quoteDecimals)
\* on heap h: the heap afterwards, the simulatedBins and the analysis returned
runSimulation(h, bins, currentPrice, initialPrice, baseDecimals, quoteDecimals) ==
  IF Len(bins) = 0
  THEN [heap |-> h, simulatedBins |-> <<>>, analysis |-> ZeroAnalysis, threw |-> FALSE]
  ELSE SimulationResult(HeapAfterMap(h, bins, currentPrice), bins,
                        [i \in 1 .. Len(bins) |-> SimBinAddress(h, bins, i)])

\* --------------------------------------------------------------------- state

VARIABLES
  params,         \* the SimulationParams in use
  heap,           \* the bin records allocated so far, by address 1..Len(heap)
  initialBins,    \* getInitialBins' result: the addresses of its bins, in order
  simulatedBins,  \* the latest runSimulation's simulatedBins, as addresses
  analysis,       \* the latest runSimulation's analysis
  pc,             \* "start", "built" (getInitialBins returned), "simulated",
                  \* "threw"; "conv" while the conversions are called directly
  calls,          \* runSimulation calls made on initialBins
  lastSim,        \* the arguments of the latest runSimulation call
  conv,           \* the latest price/id conversion call and its outcome
  prev,           \* the conversion call before it; the first call a caller kept
  ui,             \* the state of the DlmmSimulator component
  gen             \* the fetchAllPairs generator, with what it requested and yielded

vars == <<params, heap, initialBins, simulatedBins, analysis, pc, calls, lastSim, conv, prev, ui, gen>>

pipelineVars == <<heap, initialBins, simulatedBins, analysis, pc, calls, lastSim>>

NoSim == [currentPrice |-> Zero, initialPrice |-> Zero]

NoConv ==
  [op |-> "none", binId |-> 0, price |-> Zero,
   out |-> [value |-> 0, warned |-> 0, threw |-> FALSE]]

\* the decimals settings tried: SimulationParams' defaults (9, 6, adjusted), the
\* same unadjusted, and a pair with more quote decimals than base decimals
DecimalSettings ==
  { [baseDecimals |-> 9, quoteDecimals |-> 6, applyDecimalAdjustment |-> TRUE],
    [baseDecimals |-> 9, quoteDecimals |-> 6, applyDecimalAdjustment |-> FALSE],
    [baseDecimals |-> 6, quoteDecimals |-> 8, applyDecimalAdjustment |-> TRUE] }

MkParams(binStep, initialPrice, baseAmount, quoteAmount, lowerPrice, upperPrice, strategy, dec) ==
  [binStep |-> binStep, initialPrice |-> initialPrice, baseAmount |-> baseAmount,
   quoteAmount |-> quoteAmount, lowerPrice |-> lowerPrice, upperPrice |-> upperPrice,
   strategy |-> strategy, baseDecimals |-> dec.baseDecimals,
   quoteDecimals |-> dec.quoteDecimals,
   applyDecimalAdjustment |-> dec.applyDecimalAdjustment]

\* ------------------------------------------------- the DlmmSimulator component

\* The component's state holds '' in a field left empty, null, numbers and values
\* computed from them.  A value is a record of its type and its content; what
\* getInitialBins, runSimulation and the percentage formula return is kept as
\* the arguments they were computed from.
EmptyString == [type |-> "string", value |-> 0]

JsNull == [type |-> "null", value |-> 0]

EmptyArray == [type |-> "array", value |-> <<>>]

\* v === '' and v === null, told by the type: '' is the only string and null the
\* only value of its type that the state holds
IsEmptyString(v) == v.type = "string"

IsNull(v) == v.type = "null"

NumericParams ==
  {"binStep", "initialPrice", "baseAmount", "quoteAmount", "lowerPrice", "upperPrice"}

\* meteora-api.ts lines 340-348
defaultParams ==
  [binStep |-> EmptyString, initialPrice |-> EmptyString, baseAmount |-> EmptyString,
   quoteAmount |-> EmptyString, lowerPrice |-> EmptyString, upperPrice |-> EmptyString,
   strategy |-> "spot"]

\* lines 386-399: the useState initial values; last is the handler that ran last
InitialState ==
  [params |-> defaultParams,
   currentPrice |-> defaultParams.initialPrice,
   initialBins |-> EmptyArray,
   simulation |-> JsNull,
   selectedPool |-> JsNull,
   tokenSymbols |-> [base |-> "Base", quote |-> "Quote"],
   baseDecimals |-> JsNumber(9),
   quoteDecimals |-> JsNumber(6),
   applyDecimalAdjustment |-> TRUE,
   decimalsDetermined |-> TRUE,
   autoFill |-> FALSE,
   lastAutoFilledToken |-> JsNull,
   lowerPricePercentage |-> EmptyString,
   upperPricePercentage |-> EmptyString,
   last |-> "mount"]

\* lines 413-430: the useMemo; null unless all six numeric parameters are set
simulationParams(u) ==
  IF \A f \in NumericParams : ~IsEmptyString(u.params[f])
  THEN [type |-> "params",
        value |-> [binStep |-> u.params.binStep.value,
                   initialPrice |-> u.params.initialPrice.value,
                   baseAmount |-> u.params.baseAmount.value,
                   quoteAmount |-> u.params.quoteAmount.value,
                   lowerPrice |-> u.params.lowerPrice.value,
                   upperPrice |-> u.params.upperPrice.value,
                   strategy |-> u.params.strategy,
                   baseDecimals |-> u.baseDecimals.value,
                   quoteDecimals |-> u.quoteDecimals.value,
                   applyDecimalAdjustment |-> u.applyDecimalAdjustment]]
  ELSE JsNull

\* lines 442-452: setInitialBins(getInitialBins(simulationParams)), which is empty
\* for the parameters getInitialBins rejects, or setInitialBins([])
BinsEffect(u) ==
  IF IsNull(simulationParams(u)) THEN EmptyArray
  ELSE IF IsInvalidParams(simulationParams(u).value) THEN EmptyArray
  ELSE [type |-> "bins", value |-> simulationParams(u).value]

\* lines 446-448 and 463-467: an empty currentPrice follows the initial price
CurrentPriceEffect(u) ==
  IF IsEmptyString(u.currentPrice) /\ ~IsEmptyString(u.params.initialPrice)
  THEN u.params.initialPrice
  ELSE u.currentPrice

\* lines 454-461: setSimulation(runSimulation(initialBins, currentPrice,
\* simulationParams.initialPrice)) or setSimulation(null)
SimulationEffect(u, bins, currentPrice) ==
  IF bins.type = "bins" /\ currentPrice.type = "number"
  THEN [type |-> "simulation",
        value |-> [initialBins |-> bins.value, currentPrice |-> currentPrice.value,
                   initialPrice |-> u.params.initialPrice.value]]
  ELSE JsNull

\* lines 470-490: the percentage of a range price relative to the initial price,
\* '' without one of them (no percentage is being edited)
PercentageEffect(u, price) ==
  IF ~IsEmptyString(u.params.initialPrice) /\ ~IsEmptyString(price)
     /\ RGt(u.params.initialPrice.value, Zero)
  THEN [type |-> "number",
        value |-> [of |-> price.value, relativeTo |-> u.params.initialPrice.value]]
  ELSE EmptyString

\* line 1575: the chart, whose callbacks change the two prices, is rendered
ChartShown(u) ==
  /\ ~IsNull(simulationParams(u))
  /\ u.decimalsDetermined
  /\ u.currentPrice.type = "number"

\* the effects that follow a handler, run until the state is stable
RunEffects(u) ==
  [u EXCEPT
     !.initialBins = BinsEffect(u),
     !.currentPrice = CurrentPriceEffect(u),
     !.simulation = SimulationEffect(u, BinsEffect(u), CurrentPriceEffect(u)),
     !.lowerPricePercentage = PercentageEffect(u, u.params.lowerPrice),
     !.upperPricePercentage = PercentageEffect(u, u.params.upperPrice)]

\* lines 123-144: parseTokenSymbols, of a pair name given as its part before the
\* first delimiter, the delimiter ("" if the name has none) and the part after
parseTokenSymbols(pairName) ==
  IF pairName.delimiter \in {"-", "/", "_"}
  THEN [base |-> pairName.left, quote |-> pairName.right]
  ELSE [base |-> pairName.left, quote |-> "UNKNOWN"]

\* lines 1145-1162
ClearedState(u) ==
  [u EXCEPT
     !.params = defaultParams,
     !.currentPrice = defaultParams.initialPrice,
     !.initialBins = EmptyArray,
     !.simulation = JsNull,
     !.selectedPool = JsNull,
     !.tokenSymbols = [base |-> "Base", quote |-> "Quote"],
     !.baseDecimals = JsNumber(9),
     !.quoteDecimals = JsNumber(6),
     !.applyDecimalAdjustment = TRUE,
     !.decimalsDetermined = FALSE,
     !.autoFill = FALSE,
     !.lastAutoFilledToken = JsNull,
     !.lowerPricePercentage = EmptyString,
     !.upperPricePercentage = EmptyString,
     !.last = "handleClear"]

\* lines 1180-1200: the decimals and the adjustment flag for a pool, given what
\* reverseEngineerDecimals returns for it
PoolDecimals(pool, reverseEngineered) ==
  IF pool.decimals_x # Undefined /\ pool.decimals_y # Undefined
  THEN [baseDecimals |-> pool.decimals_x, quoteDecimals |-> pool.decimals_y,
        applyDecimalAdjustment |-> reverseEngineered.applyDecimalAdjustment]
  ELSE [baseDecimals |-> reverseEngineered.baseDecimals,
        quoteDecimals |-> reverseEngineered.quoteDecimals,
        applyDecimalAdjustment |-> reverseEngineered.applyDecimalAdjustment]

\* lines 1212-1221: the price of the bin offset bins from the pool's current bin
PoolBinPrice(pool, dec, offset) ==
  getPriceFromId(getIdFromPrice(pool.current_price, pool.bin_step, dec.baseDecimals.value,
                                dec.quoteDecimals.value, dec.applyDecimalAdjustment)
                   + offset,
                 pool.bin_step, dec.baseDecimals.value, dec.quoteDecimals.value,
                 dec.applyDecimalAdjustment)

\* lines 1173-1252
PoolSelectedState(u, pool, dec) ==
  [u EXCEPT
     !.selectedPool = [type |-> "pool", value |-> pool],
     !.tokenSymbols = parseTokenSymbols(pool.name),
     !.baseDecimals = dec.baseDecimals,
     !.quoteDecimals = dec.quoteDecimals,
     !.applyDecimalAdjustment = dec.applyDecimalAdjustment,
     !.decimalsDetermined = TRUE,
     !.params = [@ EXCEPT !.binStep = JsNumber(pool.bin_step),
                          !.initialPrice = JsNumber(PoolBinPrice(pool, dec, 0)),
                          !.lowerPrice = JsNumber(PoolBinPrice(pool, dec, -34)),
                          !.upperPrice = JsNumber(PoolBinPrice(pool, dec, 34))],
     !.currentPrice = JsNumber(PoolBinPrice(pool, dec, 0)),
     !.last = "handlePoolSelect"]

\* lines 925-1056 with autoFill off: finalValue is '' or the number typed
ParamChangedState(u, field, finalValue) ==
  [u EXCEPT
     !.params = [@ EXCEPT ![field] = finalValue],
     !.currentPrice = IF field = "initialPrice" THEN finalValue ELSE @,
     !.last = "handleParamChange"]

\* --------------------------------------------------- the pool feed (fetchAllPairs)
\* the page size fetchPairsPage asks for
PAGE_SIZE == 100

\* a page of the pairs endpoint: how many pairs it has, and how many of them have
\* trade_volume_24h > 0
Page(length, withVolume) ==
  [kind |-> "page", length |-> length, withVolume |-> withVolume]

\* response.pairs.some(pair => pair.trade_volume_24h > 0)
hasVolume(response) == response.withVolume > 0

\* hasMorePages after a page was read, taking only the page's length into account
MorePagesAfterFullPage(response) == ~(response.length < PAGE_SIZE)

\* hasMorePages after the two tests fetchAllPairs makes of a page it read
MorePagesAfter(response) ==
  /\ ~(~hasVolume(response) /\ response.length > 0)
  /\ ~(response.length < PAGE_SIZE)

\* the generator fetchAllPairs() returns, not yet asked for a batch
NewGenerator ==
  [pc |-> "suspendedStart", page |-> 0, hasMorePages |-> TRUE, thrown |-> "none",
   requested |-> <<>>, answered |-> <<>>, yielded |-> <<>>]

\* ------------------------------------------- the conversions, called directly

\* bin steps handed to the conversions: valid ones (basis 3/2 and 2) and invalid ones
ConvBinSteps == {-10000, -5000, 0, 5000, 10000}

ConvIds == (REFERENCE_BIN_ID - MaxOff) .. (REFERENCE_BIN_ID + MaxOff)

\* isValidBinId's MAX_BIN_ID: bin ids are stored as i32
MAX_BIN_ID == 2147483647

\* valid bin ids far from the reference bin: the lowest positive ones, two whose
\* prices are large and small doubles, the highest
FarIds == {1, 2, REFERENCE_BIN_ID - FarOff, REFERENCE_BIN_ID + FarOff, MAX_BIN_ID}

\* the far ids are tried when the basis 1 + binStep / 10000 is 0, 1 or a power of
\* two, whose powers the number model holds whatever the exponent
IdsFor(p) ==
  IF Abs(R(10000 + p.binStep, 10000).n) <= 1 /\ R(10000 + p.binStep, 10000).d = 1
  THEN ConvIds \cup FarIds
  ELSE ConvIds

\* the human price of one lamport-level price unit under the decimals in use: the
\* prices tried lie around the reference bin, whose price it is
PriceUnit(p) ==
  IF p.applyDecimalAdjustment THEN Pow10(p.baseDecimals - p.quoteDecimals) ELSE One

\* prices handed to getBinIdFromPrice, in price units: invalid ones, bin prices,
\* prices between bins
ConvPrices == { R(-1, 1), Zero, R(1, 3), R(1, 2), One, R(7, 5), R(3, 2), R(2, 1), R(5, 1) }

InitConv ==
  /\ params \in { MkParams(s, One, Zero, Zero, One, One, "spot", dec) :
                    s \in ConvBinSteps, dec \in DecimalSettings }
  /\ heap = <<>>
  /\ initialBins = <<>>
  /\ simulatedBins = <<>>
  /\ analysis = ZeroAnalysis
  /\ pc = "conv"
  /\ calls = 0
  /\ lastSim = NoSim
  /\ conv = NoConv
  /\ prev = NoConv
  /\ ui = InitialState
  /\ gen = NewGenerator

CallGetPriceFromBinId(id) ==
  /\ pc = "conv"
  /\ conv' = [op |-> "getPriceFromBinId", binId |-> id, price |-> Zero,
              out |-> getPriceFromBinId(id, params.binStep, params.baseDecimals,
                                        params.quoteDecimals, params.applyDecimalAdjustment)]
  /\ prev' = conv
  /\ UNCHANGED <<params, pipelineVars, ui, gen>>

CallGetBinIdFromPrice(price) ==
  /\ pc = "conv"
  /\ conv' = [op |-> "getBinIdFromPrice", binId |-> 0, price |-> price,
              out |-> getBinIdFromPrice(price, params.binStep, params.baseDecimals,
                                        params.quoteDecimals, params.applyDecimalAdjustment)]
  /\ prev' = conv
  /\ UNCHANGED <<params, pipelineVars, ui, gen>>

\* a caller converts the price it was just given back to a bin id
CallGetBinIdFromLastPrice ==
  /\ conv.op = "getPriceFromBinId"
  /\ IsFinite(conv.out.value)
  /\ CallGetBinIdFromPrice(conv.out.value)

NextConv ==
  \/ \E id \in IdsFor(params) : CallGetPriceFromBinId(id)
  \/ \E x \in ConvPrices : CallGetBinIdFromPrice(RMul(x, PriceUnit(params)))
  \/ CallGetBinIdFromLastPrice

SpecConv == InitConv /\ [][NextConv]_vars

\* --------------------------------------------- the pipeline: build, then simulate

Strategies == {"spot", "bid-ask", "curve"}

\* valid parameters, prices in price units: ranges of two to four bins, the initial
\* price below the range, on a bin, between bins (nearest bin below it, nearest
\* bin above it), on the top bin, above the range
ValidParams ==
  { MkParams(s, RMul(ip, PriceUnit(dec)), ba, qa, RMul(lo, PriceUnit(dec)),
             RMul(up, PriceUnit(dec)), st, dec) :
      s \in {5000, 10000},
      ip \in {R(1, 2), One, R(7, 5), R(3, 2), R(3, 1), R(8, 1)},
      ba \in {Zero, One},
      qa \in {Zero, R(100, 1)},
      lo \in {One},
      up \in {R(2, 1), R(4, 1)},
      st \in Strategies,
      dec \in DecimalSettings }

\* parameters breaking every combination of the four validity conditions of
\* getInitialBins (and one breaking none), unadjusted
EdgeParams ==
  { MkParams(s, ip, One, R(100, 1), lo, up, "spot",
             [baseDecimals |-> 9, quoteDecimals |-> 6, applyDecimalAdjustment |-> FALSE]) :
      s \in {-25, 0, 10000},
      ip \in {R(-1, 1), Zero, R(3, 2)},
      lo \in {R(-1, 1), Zero, One},
      up \in {Zero, One, R(4, 1)} }

\* prices runSimulation is called at, in price units
CurrentPrices == {R(1, 2), One, R(3, 2), R(5, 1)}

Init ==
  /\ params \in ValidParams \cup EdgeParams
  /\ heap = <<>>
  /\ initialBins = <<>>
  /\ simulatedBins = <<>>
  /\ analysis = ZeroAnalysis
  /\ pc = "start"
  /\ calls = 0
  /\ lastSim = NoSim
  /\ conv = NoConv
  /\ prev = NoConv
  /\ ui = InitialState
  /\ gen = NewGenerator

\* the caller builds the position: getInitialBins(params)
GetInitialBins ==
  /\ pc = "start"
  /\ \E r \in {getInitialBins(params)} :
        /\ heap' = r.bins
        /\ initialBins' = [i \in 1 .. Len(r.bins) |-> i]
        /\ pc' = IF r.threw THEN "threw" ELSE "built"
  /\ UNCHANGED <<params, simulatedBins, analysis, calls, lastSim, conv, prev, ui, gen>>

\* the caller simulates the position at a price: runSimulation(initialBins,
\* currentPrice, params.initialPrice, ...).  The records of the simulation before
\* are garbage by then.
RunSimulation(currentPrice) ==
  /\ pc \in {"built", "simulated"}
  /\ calls < MaxCalls
  /\ \E r \in {runSimulation(SubSeq(heap, 1, Len(initialBins)), initialBins, currentPrice,
                             params.initialPrice, params.baseDecimals,
                             params.quoteDecimals)} :
        /\ heap' = r.heap
        /\ simulatedBins' = r.simulatedBins
        /\ analysis' = r.analysis
        /\ pc' = IF r.threw THEN "threw" ELSE "simulated"
  /\ calls' = calls + 1
  /\ lastSim' = [currentPrice |-> currentPrice, initialPrice |-> params.initialPrice]
  /\ UNCHANGED <<params, initialBins, conv, prev, ui, gen>>

Next ==
  \/ GetInitialBins
  \/ \E x \in CurrentPrices : RunSimulation(RMul(x, PriceUnit(params)))
  \/ RunSimulation(params.initialPrice)

Spec == Init /\ [][Next]_vars

\* both kinds of behaviour: the pipeline's and the direct conversion calls'
InitAll == Init \/ InitConv

NextAll == Next \/ NextConv

SpecAll == InitAll /\ [][NextAll]_vars

\* ------------------------------------ calculateStrategyWeights, called directly

\* the ranges and active bins tried: ranges of up to MaxSide + 1 bins on either side
\* of the reference bin, empty ranges, the active bin inside, on an edge, outside
WeightMinIds == (REFERENCE_BIN_ID - MaxSide) .. REFERENCE_BIN_ID

WeightMaxIds == (REFERENCE_BIN_ID - 1) .. (REFERENCE_BIN_ID + MaxSide)

WeightActiveIds == (REFERENCE_BIN_ID - MaxSide - 1) .. (REFERENCE_BIN_ID + MaxSide + 1)

\* a call about to be made: the arguments, no result yet
WeightArguments ==
  { [op |-> "arguments", strategy |-> strategy, minBinId |-> minBinId,
     maxBinId |-> maxBinId, activeBinId |-> activeBinId, out |-> <<>>] :
      strategy \in Strategies, minBinId \in WeightMinIds, maxBinId \in WeightMaxIds,
      activeBinId \in WeightActiveIds }

InitWeights ==
  /\ params = MkParams(10000, One, Zero, Zero, One, One, "spot",
                       [baseDecimals |-> 9, quoteDecimals |-> 6,
                        applyDecimalAdjustment |-> TRUE])
  /\ heap = <<>>
  /\ initialBins = <<>>
  /\ simulatedBins = <<>>
  /\ analysis = ZeroAnalysis
  /\ pc = "weights"
  /\ calls = 0
  /\ lastSim = NoSim
  /\ conv \in WeightArguments
  /\ prev = NoConv
  /\ ui = InitialState
  /\ gen = NewGenerator

CallCalculateStrategyWeights ==
  /\ pc = "weights"
  /\ conv.op = "arguments"
  /\ conv' = [conv EXCEPT
                !.op = "calculateStrategyWeights",
                !.out = calculateStrategyWeights(conv.strategy, conv.minBinId,
                                                 conv.maxBinId, conv.activeBinId)]
  /\ UNCHANGED <<params, pipelineVars, prev, ui, gen>>

NextWeights == CallCalculateStrategyWeights

SpecWeights == InitWeights /\ [][NextWeights]_vars

\* positions holding dust: amounts around the 1e-12 tolerance of runSimulation
\* (2^-40 < 1e-12 < 2^-39) next to amounts a thousand times larger, in a range of
\* three bins, prices unadjusted
DustParams ==
  { MkParams(10000, ip, ba, qa, One, R(4, 1), st, dec) :
      ip \in {One, R(2, 1), R(8, 1)},
      ba \in {Zero, Q(1, 1, -40), Q(1, 1, -30)},
      qa \in {Q(3, 1, -40), Q(3, 1, -30)},
      st \in Strategies,
      dec \in {d \in DecimalSettings : ~d.applyDecimalAdjustment} }

InitDust ==
  /\ params \in DustParams
  /\ heap = <<>>
  /\ initialBins = <<>>
  /\ simulatedBins = <<>>
  /\ analysis = ZeroAnalysis
  /\ pc = "start"
  /\ calls = 0
  /\ lastSim = NoSim
  /\ conv = NoConv
  /\ prev = NoConv
  /\ ui = InitialState
  /\ gen = NewGenerator

SpecDust == InitDust /\ [][Next]_vars

\* positions of the smallest base amount there is, 2^-1074, under the strategies
\* that value a base bin by its weight and not by its amount (weightsToAmounts,
\* the bid-ask and curve branch): a bin's share of the value underflows later
\* than its amount, the value divided by the bin's price
TinyParams ==
  { MkParams(10000, ip, Q(1, 1, -1074), qa, One, R(4, 1), st, dec) :
      ip \in {One, R(2, 1), R(8, 1)},
      qa \in {Q(3, 1, -40), Q(3, 1, -30)},
      st \in {"bid-ask", "curve"},
      dec \in {d \in DecimalSettings : ~d.applyDecimalAdjustment} }

InitTiny ==
  /\ params \in TinyParams
  /\ heap = <<>>
  /\ initialBins = <<>>
  /\ simulatedBins = <<>>
  /\ analysis = ZeroAnalysis
  /\ pc = "start"
  /\ calls = 0
  /\ lastSim = NoSim
  /\ conv = NoConv
  /\ prev = NoConv
  /\ ui = InitialState
  /\ gen = NewGenerator

SpecTiny == InitTiny /\ [][Next]_vars

\* ---------------------------- a caller that compares the results of its calls

\* the positions simulated over and over: both amounts given, the initial price
\* on a bin and between two bins
RepeatParams ==
  { MkParams(10000, RMul(ip, PriceUnit(dec)), One, R(100, 1), PriceUnit(dec),
             RMul(R(4, 1), PriceUnit(dec)), st, dec) :
      ip \in {One, R(3, 1)},
      st \in Strategies,
      dec \in {d \in DecimalSettings : d.baseDecimals > d.quoteDecimals} }

InitRepeat ==
  /\ params \in RepeatParams
  /\ heap = <<>>
  /\ initialBins = <<>>
  /\ simulatedBins = <<>>
  /\ analysis = ZeroAnalysis
  /\ pc = "start"
  /\ calls = 0
  /\ lastSim = NoSim
  /\ conv = NoConv
  /\ prev = NoConv
  /\ ui = InitialState
  /\ gen = NewGenerator

\* what a caller holds of a call: the arguments and the value of the result
CallRecord(currentPrice, r) ==
  [op |-> "runSimulation", currentPrice |-> currentPrice,
   initialPrice |-> params.initialPrice, others |-> 0,
   out |-> [simulatedBins |-> [i \in 1 .. Len(r.simulatedBins) |-> r.heap[r.simulatedBins[i]]],
            analysis |-> r.analysis]]

\* runSimulation(initialBins, currentPrice, params.initialPrice, ...) by a caller
\* that keeps the result of its first call (prev) next to the latest (conv) and
\* counts the calls made at other prices since the first
RunSimulationAgain(currentPrice) ==
  /\ pc \in {"built", "simulated"}
  /\ calls < MaxCalls + 1
  /\ \E r \in {runSimulation(SubSeq(heap, 1, Len(initialBins)), initialBins, currentPrice,
                             params.initialPrice, params.baseDecimals,
                             params.quoteDecimals)} :
        /\ heap' = r.heap
        /\ simulatedBins' = r.simulatedBins
        /\ analysis' = r.analysis
        /\ pc' = IF r.threw THEN "threw" ELSE "simulated"
        /\ conv' = CallRecord(currentPrice, r)
        /\ prev' = IF calls = 0 THEN CallRecord(currentPrice, r)
                   ELSE IF currentPrice = prev.currentPrice THEN prev
                   ELSE [prev EXCEPT !.others = 1]
  /\ calls' = calls + 1
  /\ lastSim' = [currentPrice |-> currentPrice, initialPrice |-> params.initialPrice]
  /\ UNCHANGED <<params, initialBins, ui, gen>>

NextRepeat ==
  \/ GetInitialBins
  \/ \E x \in CurrentPrices : RunSimulationAgain(RMul(x, PriceUnit(params)))
  \/ RunSimulationAgain(params.initialPrice)

SpecRepeat == InitRepeat /\ [][NextRepeat]_vars

\* ------------------------------ a caller that simulates one position at two prices

\* positions of bins priced below 1, holding amounts around the 1e-12 tolerance of
\* runSimulation (2^-40 < 1e-12 < 2^-39): a range of three bins, the initial price
\* on the lowest and on the middle bin, prices unadjusted
LowPricedParams ==
  { MkParams(10000, ip, ba, qa, R(1, 4), One, st, dec) :
      ip \in {R(1, 4), R(1, 2)},
      ba \in {Q(1, 1, -39), Q(1, 1, -30)},
      qa \in {Zero, Q(3, 1, -30)},
      st \in Strategies,
      dec \in {d \in DecimalSettings : ~d.applyDecimalAdjustment} }

InitCompare ==
  /\ params \in RepeatParams \cup DustParams \cup LowPricedParams
  /\ heap = <<>>
  /\ initialBins = <<>>
  /\ simulatedBins = <<>>
  /\ analysis = ZeroAnalysis
  /\ pc = "start"
  /\ calls = 0
  /\ lastSim = NoSim
  /\ conv = NoConv
  /\ prev = NoConv
  /\ ui = InitialState
  /\ gen = NewGenerator

\* runSimulation(initialBins, currentPrice, params.initialPrice, ...) by a caller
\* that keeps the result of its first call (prev) next to the latest (conv)
CompareSimulation(currentPrice) ==
  /\ pc \in {"built", "simulated"}
  /\ calls < MaxCalls
  /\ \E r \in {runSimulation(SubSeq(heap, 1, Len(initialBins)), initialBins, currentPrice,
                             params.initialPrice, params.baseDecimals,
                             params.quoteDecimals)} :
        /\ heap' = r.heap
        /\ simulatedBins' = r.simulatedBins
        /\ analysis' = r.analysis
        /\ pc' = IF r.threw THEN "threw" ELSE "simulated"
        /\ conv' = CallRecord(currentPrice, r)
        /\ prev' = IF calls = 0 THEN CallRecord(currentPrice, r) ELSE prev
  /\ calls' = calls + 1
  /\ lastSim' = [currentPrice |-> currentPrice, initialPrice |-> params.initialPrice]
  /\ UNCHANGED <<params, initialBins, ui, gen>>

NextCompare ==
  \/ GetInitialBins
  \/ \E x \in CurrentPrices : CompareSimulation(RMul(x, PriceUnit(params)))

SpecCompare == InitCompare /\ [][NextCompare]_vars

\* --------------------- a caller that varies runSimulation's reference arguments

\* the currentPrice arguments of the calls, in price units: on a bin and between
\* two bins
ReferenceCurrentPrices == {One, R(3, 2)}

\* the initialPrice, baseDecimals and quoteDecimals arguments of the calls
ReferenceArguments ==
  { [initialPrice |-> One, baseDecimals |-> 9, quoteDecimals |-> 6],
    [initialPrice |-> R(7, 1), baseDecimals |-> 9, quoteDecimals |-> 6],
    [initialPrice |-> One, baseDecimals |-> 6, quoteDecimals |-> 8] }

InitReference ==
  /\ params \in RepeatParams
  /\ heap = <<>>
  /\ initialBins = <<>>
  /\ simulatedBins = <<>>
  /\ analysis = ZeroAnalysis
  /\ pc = "start"
  /\ calls = 0
  /\ lastSim = NoSim
  /\ conv = NoConv
  /\ prev = NoConv
  /\ ui = InitialState
  /\ gen = NewGenerator

\* what a caller holds of a call: all the arguments but the bins, and the value
\* of the result
ReferenceCallRecord(currentPrice, ref, r) ==
  [op |-> "runSimulation", currentPrice |-> currentPrice,
   initialPrice |-> ref.initialPrice, baseDecimals |-> ref.baseDecimals,
   quoteDecimals |-> ref.quoteDecimals,
   out |-> [simulatedBins |-> [i \in 1 .. Len(r.simulatedBins) |-> r.heap[r.simulatedBins[i]]],
            analysis |-> r.analysis]]

\* runSimulation(initialBins, currentPrice, initialPrice, baseDecimals,
\* quoteDecimals) by a caller that keeps the result of its first call (prev) next
\* to the latest (conv)
CallWithReference(currentPrice, ref) ==
  /\ pc \in {"built", "simulated"}
  /\ calls < MaxCalls
  /\ \E r \in {runSimulation(SubSeq(heap, 1, Len(initialBins)), initialBins, currentPrice,
                             ref.initialPrice, ref.baseDecimals, ref.quoteDecimals)} :
        /\ heap' = r.heap
        /\ simulatedBins' = r.simulatedBins
        /\ analysis' = r.analysis
        /\ pc' = IF r.threw THEN "threw" ELSE "simulated"
        /\ conv' = ReferenceCallRecord(currentPrice, ref, r)
        /\ prev' = IF calls = 0 THEN ReferenceCallRecord(currentPrice, ref, r) ELSE prev
  /\ calls' = calls + 1
  /\ lastSim' = [currentPrice |-> currentPrice, initialPrice |-> ref.initialPrice]
  /\ UNCHANGED <<params, initialBins, ui, gen>>

NextReference ==
  \/ GetInitialBins
  \/ \E x \in ReferenceCurrentPrices : \E ref \in ReferenceArguments :
       CallWithReference(RMul(x, PriceUnit(params)), ref)

SpecReference == InitReference /\ [][NextReference]_vars

\* ------------------------------------------- weightsToAmounts, called directly

\* the ranges of the calls: up to MaxOff bins, the active bin inside the range, on
\* its edges, below it and above it
AmountMinIds == (REFERENCE_BIN_ID - MaxOff + 2) .. REFERENCE_BIN_ID

AmountMaxIds == REFERENCE_BIN_ID .. (REFERENCE_BIN_ID + MaxOff - 2)

AmountActiveIds == (REFERENCE_BIN_ID - MaxOff + 1) .. (REFERENCE_BIN_ID + MaxOff - 1)

\* the weight maps of the calls: what calculateStrategyWeights returns, as in
\* getInitialBins (part_000:107), and a map of weights 0
AmountWeights(weighted, strategy, minBinId, maxBinId, activeBinId) ==
  IF weighted THEN calculateStrategyWeights(strategy, minBinId, maxBinId, activeBinId)
  ELSE [id \in minBinId .. maxBinId |-> 0]

\* the price map of the calls, as getInitialBins builds it (part_000:110-114), bin
\* step 10000, unadjusted
AmountBinPrices(minBinId, maxBinId) ==
  [id \in minBinId .. maxBinId |-> getPriceFromId(id, 10000, 9, 6, FALSE)]

\* a call about to be made: the arguments, no result yet
AmountArguments ==
  { [op |-> "arguments",
     weights |-> AmountWeights(weighted, strategy, minBinId, maxBinId, activeBinId),
     totalBaseAmount |-> totalBaseAmount,
     totalQuoteAmount |-> totalQuoteAmount, activeBinId |-> activeBinId,
     binPrices |-> AmountBinPrices(minBinId, maxBinId), strategy |-> strategy,
     initialPrice |-> initialPrice, out |-> <<>>] :
      strategy \in Strategies, minBinId \in AmountMinIds, maxBinId \in AmountMaxIds,
      activeBinId \in AmountActiveIds,
      weighted \in BOOLEAN,
      totalBaseAmount \in {Zero, One, R(5, 1)},
      totalQuoteAmount \in {Zero, R(100, 1)},
      initialPrice \in {One, R(3, 2)} }

InitAmounts ==
  /\ params = MkParams(10000, One, Zero, Zero, One, One, "spot",
                       [baseDecimals |-> 9, quoteDecimals |-> 6,
                        applyDecimalAdjustment |-> TRUE])
  /\ heap = <<>>
  /\ initialBins = <<>>
  /\ simulatedBins = <<>>
  /\ analysis = ZeroAnalysis
  /\ pc = "amounts"
  /\ calls = 0
  /\ lastSim = NoSim
  /\ conv \in AmountArguments
  /\ prev = NoConv
  /\ ui = InitialState
  /\ gen = NewGenerator

CallWeightsToAmounts ==
  /\ pc = "amounts"
  /\ conv.op = "arguments"
  /\ conv' = [conv EXCEPT
                !.op = "weightsToAmounts",
                !.out = weightsToAmounts(conv.weights, conv.totalBaseAmount,
                                         conv.totalQuoteAmount, conv.activeBinId,
                                         conv.binPrices, conv.strategy, conv.initialPrice)]
  /\ UNCHANGED <<params, pipelineVars, prev, ui, gen>>

NextAmounts == CallWeightsToAmounts

SpecAmounts == InitAmounts /\ [][NextAmounts]_vars

\* -------------------------------------- reverseEngineerDecimals, called directly

\* observed prices: invalid ones, the reference price adjusted and unadjusted, and
\* prices off every bin
ObservedPrices == {R(-1, 1), Zero, One, R(3, 1), R(1000, 1)}

\* bin steps: basis 2, and the invalid 0 and -10000
ObservedBinSteps == {10000, 0, -10000}

\* token keys: the two of the registry, one it does not know (USDT's mint) and
\* the inherited ones
TokenKeys == {SOL, USDC, "Es9vMFrzaCERmJfrF4H2FYD4KCoNkY11McCe8BenwNYB"} \cup InheritedKeys

\* a call about to be made: the arguments, no result yet
DecimalsArguments ==
  { [op |-> "arguments", apiPrice |-> apiPrice, binStep |-> binStep, mintX |-> mintX,
     mintY |-> mintY, out |-> <<>>] :
      apiPrice \in ObservedPrices, binStep \in ObservedBinSteps, mintX \in TokenKeys,
      mintY \in TokenKeys }

InitDecimals ==
  /\ params = MkParams(10000, One, Zero, Zero, One, One, "spot",
                       [baseDecimals |-> 9, quoteDecimals |-> 6,
                        applyDecimalAdjustment |-> TRUE])
  /\ heap = <<>>
  /\ initialBins = <<>>
  /\ simulatedBins = <<>>
  /\ analysis = ZeroAnalysis
  /\ pc = "decimals"
  /\ calls = 0
  /\ lastSim = NoSim
  /\ conv \in DecimalsArguments
  /\ prev = NoConv
  /\ ui = InitialState
  /\ gen = NewGenerator

CallReverseEngineerDecimals ==
  /\ pc = "decimals"
  /\ conv.op = "arguments"
  /\ conv' = [conv EXCEPT
                !.op = "reverseEngineerDecimals",
                !.out = reverseEngineerDecimals(conv.apiPrice, conv.binStep,
                                                conv.mintX, conv.mintY)]
  /\ UNCHANGED <<params, pipelineVars, prev, ui, gen>>

NextDecimals == CallReverseEngineerDecimals

SpecDecimals == InitDecimals /\ [][NextDecimals]_vars

\* ------------------------------------------------ the component's handlers

\* the fields the user types into; a pool fills in the others
EditedParams == {"initialPrice", "baseAmount", "quoteAmount"}

\* the number the user types into a parameter's field
TypedNumber(field) ==
  CASE field = "initialPrice" -> JsNumber(R(2, 1))
    [] field = "baseAmount" -> JsNumber(One)
    [] field = "quoteAmount" -> JsNumber(R(100, 1))

\* the pools offered: both tokens in the registry and no decimals from the API;
\* an unknown base token with decimals from the API; a name without delimiter
Pools ==
  { [name |-> [left |-> "SOL", delimiter |-> "-", right |-> "USDC"],
     mint_x |-> SOL, mint_y |-> USDC, bin_step |-> 10000,
     current_price |-> R(1000, 1), decimals_x |-> Undefined, decimals_y |-> Undefined],
    [name |-> [left |-> "BONK", delimiter |-> "/", right |-> "USDC"],
     mint_x |-> "DezXAZ8z7PnrnRJjz3wXBoRgixCa6xjnB7YaB1pPB263", mint_y |-> USDC,
     bin_step |-> 10000, current_price |-> R(3, 1),
     decimals_x |-> JsNumber(5), decimals_y |-> JsNumber(6)],
    [name |-> [left |-> "USDCSOL", delimiter |-> "", right |-> ""],
     mint_x |-> USDC, mint_y |-> SOL, bin_step |-> 10000,
     current_price |-> One, decimals_x |-> Undefined, decimals_y |-> Undefined] }

\* prices the chart hands to its callbacks
ChartPrices == {R(3, 1)}

InitUi ==
  /\ params = MkParams(10000, One, Zero, Zero, One, One, "spot",
                       [baseDecimals |-> 9, quoteDecimals |-> 6,
                        applyDecimalAdjustment |-> TRUE])
  /\ heap = <<>>
  /\ initialBins = <<>>
  /\ simulatedBins = <<>>
  /\ analysis = ZeroAnalysis
  /\ pc = "ui"
  /\ calls = 0
  /\ lastSim = NoSim
  /\ conv = NoConv
  /\ prev = NoConv
  /\ ui = InitialState
  /\ gen = NewGenerator

handleClear ==
  /\ pc = "ui"
  /\ \E cleared \in {ClearedState(ui)} : ui' = RunEffects(cleared)
  /\ UNCHANGED <<params, pipelineVars, conv, prev, gen>>

handlePoolSelect(pool) ==
  /\ pc = "ui"
  /\ \E reverseEngineered \in {reverseEngineerDecimals(pool.current_price, pool.bin_step,
                                                        pool.mint_x, pool.mint_y)} :
       \E dec \in {PoolDecimals(pool, reverseEngineered)} :
         \E selected \in {PoolSelectedState(ui, pool, dec)} : ui' = RunEffects(selected)
  /\ UNCHANGED <<params, pipelineVars, conv, prev, gen>>

handleParamChange(field, finalValue) ==
  /\ pc = "ui"
  /\ ~ui.autoFill
  /\ \E changed \in {ParamChangedState(ui, field, finalValue)} : ui' = RunEffects(changed)
  /\ UNCHANGED <<params, pipelineVars, conv, prev, gen>>

handleStrategyChange(value) ==
  /\ pc = "ui"
  /\ \E changed \in {[ui EXCEPT !.params.strategy = value, !.last = "handleStrategyChange"]} :
       ui' = RunEffects(changed)
  /\ UNCHANGED <<params, pipelineVars, conv, prev, gen>>

handleInitialPriceChange(newInitialPrice) ==
  /\ pc = "ui"
  /\ ChartShown(ui)
  /\ \E changed \in {[ui EXCEPT !.params.initialPrice = JsNumber(newInitialPrice),
                               !.currentPrice = JsNumber(newInitialPrice),
                               !.last = "handleInitialPriceChange"]} :
       ui' = RunEffects(changed)
  /\ UNCHANGED <<params, pipelineVars, conv, prev, gen>>

handleCurrentPriceChange(newCurrentPrice) ==
  /\ pc = "ui"
  /\ ChartShown(ui)
  /\ \E changed \in {[ui EXCEPT !.currentPrice = JsNumber(newCurrentPrice),
                               !.last = "handleCurrentPriceChange"]} :
       ui' = RunEffects(changed)
  /\ UNCHANGED <<params, pipelineVars, conv, prev, gen>>

NextUi ==
  \/ handleClear
  \/ \E pool \in Pools : handlePoolSelect(pool)
  \/ \E field \in EditedParams : handleParamChange(field, TypedNumber(field))
  \/ \E field \in EditedParams : handleParamChange(field, EmptyString)
  \/ \E value \in Strategies : handleStrategyChange(value)
  \/ \E price \in ChartPrices : handleInitialPriceChange(price)
  \/ \E price \in ChartPrices : handleCurrentPriceChange(price)

SpecUi == InitUi /\ [][NextUi]_vars

\* ----------------------------------------------- a consumer of fetchAllPairs
\* the pages the endpoint may answer with: full, one short of full, empty, each
\* with and without volume
ServedPages ==
  { Page(PAGE_SIZE, PAGE_SIZE), Page(PAGE_SIZE, 1), Page(PAGE_SIZE, 0),
    Page(PAGE_SIZE - 1, 1), Page(PAGE_SIZE - 1, 0), Page(1, 1), Page(0, 0) }

\* the ways a page fetch fails: the fetch rejects, or the response is not ok and
\* fetchPairsPage throws
FetchFailures ==
  { [kind |-> k, length |-> 0, withVolume |-> 0] : k \in {"rejected", "notOk"} }

InitPages ==
  /\ params = MkParams(10000, One, Zero, Zero, One, One, "spot",
                       [baseDecimals |-> 9, quoteDecimals |-> 6,
                        applyDecimalAdjustment |-> TRUE])
  /\ heap = <<>>
  /\ initialBins = <<>>
  /\ simulatedBins = <<>>
  /\ analysis = ZeroAnalysis
  /\ pc = "pages"
  /\ calls = 0
  /\ lastSim = NoSim
  /\ conv = NoConv
  /\ prev = NoConv
  /\ ui = InitialState
  /\ gen = NewGenerator

\* for await asks for a batch: the first request, or the resumption after a yield
NextBatch ==
  /\ pc = "pages"
  /\ gen.pc \in {"suspendedStart", "suspendedYield"}
  /\ gen' = IF gen.pc = "suspendedStart"
            THEN \* the while test holds; fetchPairsPage(page) is called and awaited
                 [gen EXCEPT !.pc = "fetching",
                             !.requested = Append(gen.requested, gen.page)]
            ELSE \* page++, then the 35 ms pause
                 [gen EXCEPT !.pc = "waiting", !.page = gen.page + 1]
  /\ UNCHANGED <<params, pipelineVars, conv, prev, ui>>

\* the 35 ms timer fires: the while test, then fetchPairsPage(page) or the end
PauseOver ==
  /\ pc = "pages"
  /\ gen.pc = "waiting"
  /\ gen' = IF gen.hasMorePages
            THEN [gen EXCEPT !.pc = "fetching",
                             !.requested = Append(gen.requested, gen.page)]
            ELSE [gen EXCEPT !.pc = "completed"]
  /\ UNCHANGED <<params, pipelineVars, conv, prev, ui>>

\* the endpoint answers with a page: the two tests, then the yield of the batch;
\* a page that asks for another is served up to page MaxPages
PageArrives(response) ==
  /\ pc = "pages"
  /\ gen.pc = "fetching"
  /\ gen.page < MaxPages \/ ~MorePagesAfter(response)
  /\ gen' = [gen EXCEPT
               !.pc = "suspendedYield",
               !.hasMorePages = MorePagesAfter(response),
               !.answered = Append(gen.answered, response),
               !.yielded = Append(gen.yielded,
                 [pairs |-> [length |-> response.length,
                             withVolume |-> response.withVolume],
                  page |-> gen.page,
                  shouldContinue |-> MorePagesAfter(response)])]
  /\ UNCHANGED <<params, pipelineVars, conv, prev, ui>>

\* the fetch rejects or the response is not ok: the catch block logs, clears
\* hasMorePages and rethrows
FetchFails(failure) ==
  /\ pc = "pages"
  /\ gen.pc = "fetching"
  /\ gen' = [gen EXCEPT !.pc = "completed", !.hasMorePages = FALSE,
                        !.thrown = failure.kind,
                        !.answered = Append(gen.answered, failure)]
  /\ UNCHANGED <<params, pipelineVars, conv, prev, ui>>

\* the consumer breaks out of its for await: the generator returns at its yield
ConsumerBreaks ==
  /\ pc = "pages"
  /\ gen.pc = "suspendedYield"
  /\ gen' = [gen EXCEPT !.pc = "completed"]
  /\ UNCHANGED <<params, pipelineVars, conv, prev, ui>>

NextPages ==
  \/ NextBatch
  \/ PauseOver
  \/ \E response \in ServedPages : PageArrives(response)
  \/ \E failure \in FetchFailures : FetchFails(failure)
  \/ ConsumerBreaks

SpecPages == InitPages /\ [][NextPages]_vars

\* ------------------------------------------------------------------ claims

InitialBin(i) == heap[initialBins[i]]

SimulatedBin(i) == heap[simulatedBins[i]]

Built == pc \in {"built", "simulated"}

HasBinOfType(tokenType) ==
  \E i \in 1 .. Len(initialBins) : InitialBin(i).initialTokenType = tokenType

InitialSum(tokenType) ==
  RSum([i \in 1 .. Len(initialBins) |->
          IF InitialBin(i).initialTokenType = tokenType
          THEN InitialBin(i).initialAmount ELSE Zero])

\* |x - target| / target <= 1e-9
WithinRelTol(x, target) ==
  LET ratio == RDiv(RAbs(RSub(x, target)), target)
  IN IsFinite(ratio) /\ RLe(ratio, R(1, IntPow(10, 9)))

\* the latest call was runSimulation(bins, p, p) with p = params.initialPrice
IdentityCall ==
  /\ pc = "simulated"
  /\ lastSim.currentPrice = params.initialPrice
  /\ lastSim.initialPrice = params.initialPrice

\* C1 (as claimed): runSimulation(getInitialBins(params), p, p) with
\* p = params.initialPrice returns every bin, the active bin included, with
\* currentTokenType = initialTokenType and currentAmount = initialAmount.
C1_IdentitySimulation ==
  IdentityCall =>
    \A i \in 1 .. Len(initialBins) :
      /\ SimulatedBin(i).currentTokenType = InitialBin(i).initialTokenType
      /\ SimulatedBin(i).currentAmount = InitialBin(i).initialAmount

\* C2 (as claimed): whenever baseAmount > 0 and getInitialBins returns a
\* base-typed bin, the base-typed bins' initialAmount sums to baseAmount within
\* 1e-9 relative error, for every strategy and every quoteAmount >= 0.
C2_BaseMassConservation ==
  (Built /\ RGt(params.baseAmount, Zero) /\ HasBinOfType("base")) =>
    WithinRelTol(InitialSum("base"), params.baseAmount)

\* C3: whenever quoteAmount > 0 and getInitialBins returns a quote-typed bin, the
\* quote-typed bins' initialAmount sums to quoteAmount within 1e-9 relative
\* error, and each quote bin's initialValueInQuote equals its initialAmount.
C3_QuoteMassConservation ==
  (Built /\ RGt(params.quoteAmount, Zero) /\ HasBinOfType("quote")) =>
    /\ WithinRelTol(InitialSum("quote"), params.quoteAmount)
    /\ \A i \in 1 .. Len(initialBins) :
         InitialBin(i).initialTokenType = "quote" =>
           InitialBin(i).initialValueInQuote = InitialBin(i).initialAmount

\* C3's case: a quote-only position whose active bin lies above the range, under
\* a weighted strategy
C3_Witness ==
  /\ pc = "built"
  /\ RGt(params.quoteAmount, Zero)
  /\ params.strategy = "bid-ask"
  /\ Len(initialBins) >= 2
  /\ ~HasBinOfType("base")
  /\ \A i \in 1 .. Len(initialBins) : RGt(InitialBin(i).initialAmount, Zero)

\* C4: a runSimulation call leaves the input list and every field of each of its
\* bin records as they were, and returns a list of as many records, each a
\* record of its own: none is a record of the input, no two are the same record.
C4_InputNotMutated ==
  [][ (pc \in {"built", "simulated"} /\ pc' = "simulated") =>
        /\ initialBins' = initialBins
        /\ \A i \in 1 .. Len(initialBins) : heap'[initialBins[i]] = heap[initialBins[i]]
        /\ Len(simulatedBins') = Len(initialBins)
        /\ \A i \in 1 .. Len(simulatedBins') :
             /\ \A j \in 1 .. Len(initialBins) : simulatedBins'[i] # initialBins[j]
             /\ \A j \in 1 .. Len(simulatedBins') :
                  simulatedBins'[i] = simulatedBins'[j] => i = j ]_vars

\* C4's case: a second call on the same list, which converted a bin
C4_Witness ==
  /\ pc = "simulated"
  /\ calls = 2
  /\ \E i \in 1 .. Len(initialBins) :
       /\ RGt(InitialBin(i).initialAmount, Zero)
       /\ SimulatedBin(i).currentTokenType # InitialBin(i).initialTokenType

\* C5: for every bin with initialAmount > 0 the resulting type is quote iff
\* currentPrice > bin.price, else base; base turned quote holds
\* initialAmount * price, quote turned base holds initialAmount / price, an
\* unconverted bin keeps initialAmount; currentValueInQuote is the amount times
\* currentPrice for a base result and the amount itself for a quote result.
C5_ConversionRule ==
  pc = "simulated" =>
    \A i \in 1 .. Len(initialBins) :
      LET b == InitialBin(i)
          r == SimulatedBin(i)
          cp == lastSim.currentPrice
      IN RGt(b.initialAmount, Zero) =>
           /\ r.currentTokenType = (IF RCmp(cp, b.price) > 0 THEN "quote" ELSE "base")
           /\ r.currentAmount =
                (IF b.initialTokenType = r.currentTokenType THEN b.initialAmount
                 ELSE IF r.currentTokenType = "quote" THEN RMul(b.initialAmount, b.price)
                 ELSE RDiv(b.initialAmount, b.price))
           /\ r.currentValueInQuote =
                (IF r.currentTokenType = "base" THEN RMul(r.currentAmount, cp)
                 ELSE r.currentAmount)

\* C5's case: a funded base bin sold into quote and a funded bin left unconverted
C5_Witness ==
  /\ pc = "simulated"
  /\ \E i \in 1 .. Len(initialBins) :
       /\ RGt(InitialBin(i).initialAmount, Zero)
       /\ InitialBin(i).initialTokenType = "base"
       /\ SimulatedBin(i).currentTokenType = "quote"
  /\ \E i \in 1 .. Len(initialBins) :
       /\ RGt(InitialBin(i).initialAmount, Zero)
       /\ InitialBin(i).initialTokenType = "quote"
       /\ SimulatedBin(i).currentTokenType = "quote"

SameSettingsRoundTrip ==
  /\ pc = "conv"
  /\ prev.op = "getPriceFromBinId"
  /\ conv.op = "getBinIdFromPrice"
  /\ conv.price = prev.out.value

\* a is a positive double of the normal range, 2^-1022 <= a < 2^1024
IsNormal(a) == IsFinite(a) /\ a.n > 0 /\ Exponent(a) >= -1022

\* the getPriceFromBinId call c, made with a bin step > 0, stayed within the
\* normal range: both the power basis^(id - REFERENCE_BIN_ID) and the price
\* returned are normal doubles
PriceInNormalRange(c) ==
  /\ c.op = "getPriceFromBinId"
  /\ params.binStep > 0
  /\ IsNormal(RPow(R(10000 + params.binStep, 10000), c.binId - REFERENCE_BIN_ID))
  /\ IsNormal(c.out.value)

\* C6 (as claimed): for binStep > 0, every integer bin id and any decimals
\* settings used in both directions, getBinIdFromPrice(getPriceFromBinId(id)) = id.
C6_RoundTrip ==
  (SameSettingsRoundTrip /\ params.binStep > 0) =>
    /\ conv.out.value = prev.binId
    /\ ~conv.out.threw

\* C6 (amended): for binStep > 0 and any decimals settings used in both
\* directions, getBinIdFromPrice(getPriceFromBinId(id)) = id for every bin id at
\* which basis^(id - REFERENCE_BIN_ID) and the price are normal doubles.
C6_RoundTripInRange ==
  (SameSettingsRoundTrip /\ PriceInNormalRange(prev)) =>
    /\ conv.out.value = prev.binId
    /\ conv.out.warned = 0
    /\ ~conv.out.threw

\* C6's case: a round trip far below the reference bin, with the decimal
\* adjustment applied
C6_Witness ==
  /\ SameSettingsRoundTrip
  /\ PriceInNormalRange(prev)
  /\ params.applyDecimalAdjustment
  /\ params.baseDecimals # params.quoteDecimals
  /\ prev.binId = REFERENCE_BIN_ID - FarOff
  /\ conv.out.value = prev.binId

BinsIncrease ==
  \A i, j \in 1 .. Len(initialBins) :
    i < j => /\ InitialBin(i).id < InitialBin(j).id
             /\ RCmp(InitialBin(i).price, InitialBin(j).price) < 0

TwoPricesAsked ==
  /\ pc = "conv"
  /\ params.binStep > 0
  /\ prev.op = "getPriceFromBinId"
  /\ conv.op = "getPriceFromBinId"
  /\ prev.binId < conv.binId

\* C7 (as claimed): for binStep > 0 and fixed decimals settings getPriceFromBinId
\* is strictly increasing in the bin id, so the bins getInitialBins returns have
\* strictly increasing ids and prices.
C7_Monotonic ==
  /\ TwoPricesAsked => RLt(prev.out.value, conv.out.value)
  /\ Built => BinsIncrease

\* C7 (amended): for binStep > 0 and fixed decimals settings getPriceFromBinId is
\* strictly increasing over the bin ids at which basis^(id - REFERENCE_BIN_ID)
\* and the price are normal doubles, and the bins getInitialBins returns for
\* prices of that range have strictly increasing ids and prices.
C7_MonotonicInRange ==
  /\ (TwoPricesAsked /\ PriceInNormalRange(prev) /\ PriceInNormalRange(conv)) =>
       RLt(prev.out.value, conv.out.value)
  /\ Built => BinsIncrease

\* C7's case: the prices of two bins, not neighbours, asked one after the other
C7_Witness ==
  /\ TwoPricesAsked
  /\ PriceInNormalRange(prev)
  /\ PriceInNormalRange(conv)
  /\ prev.binId + 1 < conv.binId
  /\ conv.binId <= REFERENCE_BIN_ID + MaxOff

ParamsRejected ==
  \/ RCmp(params.lowerPrice, Zero) <= 0
  \/ RCmp(params.upperPrice, params.lowerPrice) <= 0
  \/ params.binStep <= 0
  \/ RCmp(params.initialPrice, Zero) <= 0

\* C8: getInitialBins returns, without raising, an empty list whenever
\* lowerPrice <= 0, upperPrice <= lowerPrice, binStep <= 0 or initialPrice <= 0,
\* and a non-empty list whenever none of these holds.
C8_EmptyIffInvalid ==
  pc # "start" /\ pc # "conv" =>
    /\ pc # "threw"
    /\ (Len(initialBins) = 0) <=> ParamsRejected

\* C8's case: a degenerate range (upperPrice = lowerPrice) with everything else valid
C8_Witness ==
  /\ pc = "built"
  /\ Len(initialBins) = 0
  /\ params.upperPrice = params.lowerPrice
  /\ RCmp(params.lowerPrice, Zero) > 0
  /\ params.binStep > 0
  /\ RCmp(params.initialPrice, Zero) > 0

\* C9: getBinIdFromPrice called with price <= 0 or binStep <= 0 returns the
\* sentinel id 0, writes one warning and does not raise.
C9_InvalidInputSentinel ==
  (pc = "conv" /\ conv.op = "getBinIdFromPrice"
     /\ (RCmp(conv.price, Zero) <= 0 \/ params.binStep <= 0)) =>
    /\ conv.out.value = 0
    /\ conv.out.warned = 1
    /\ ~conv.out.threw

\* C9's case: a valid bin step with a non-positive price
C9_Witness ==
  /\ pc = "conv"
  /\ conv.op = "getBinIdFromPrice"
  /\ params.binStep > 0
  /\ RCmp(conv.price, Zero) < 0

\* C10 (as claimed): getPriceFromBinId called with binStep <= 0 returns the
\* sentinel price 0 and does not raise.
C10_InvalidBinStepSentinel ==
  (pc = "conv" /\ conv.op = "getPriceFromBinId" /\ params.binStep <= 0) =>
    /\ conv.out.value = Zero
    /\ ~conv.out.threw

\* the simulated bins that pass the dust filter
Kept == {i \in 1 .. Len(simulatedBins) : RGt(SimulatedBin(i).currentAmount, Pow10(-12))}

\* the sum of field f over the kept bins of a token type
KeptSum(f, tokenTypes) ==
  RSum([i \in 1 .. Len(simulatedBins) |->
          IF i \in Kept /\ SimulatedBin(i).currentTokenType \in tokenTypes
          THEN SimulatedBin(i)[f] ELSE Zero])

\* C11: in runSimulation's Analysis a bin whose resulting amount is <= 1e-12 adds
\* nothing to totalValueInQuote, totalBase, totalQuote, baseBins or quoteBins
\* (they are the sums and counts over the other bins), while totalBins is the
\* number of input bins with initialAmount > 0, whatever currentPrice is.
C11_DustFiltering ==
  pc = "simulated" =>
    /\ analysis.totalValueInQuote = KeptSum("currentValueInQuote", {"base", "quote"})
    /\ analysis.totalBase = KeptSum("currentAmount", {"base"})
    /\ analysis.totalQuote = KeptSum("currentAmount", {"quote"})
    /\ analysis.baseBins =
         Cardinality({i \in Kept : SimulatedBin(i).currentTokenType = "base"})
    /\ analysis.quoteBins =
         Cardinality({i \in Kept : SimulatedBin(i).currentTokenType = "quote"})
    /\ analysis.totalBins =
         Cardinality({i \in 1 .. Len(initialBins) : RGt(InitialBin(i).initialAmount, Zero)})

\* C11's case: a funded bin left with a positive amount of at most 1e-12 next to
\* a bin that passes the filter, so that totalBins counts more bins than
\* baseBins and quoteBins do
C11_Witness ==
  /\ pc = "simulated"
  /\ \E i \in 1 .. Len(simulatedBins) :
       /\ RGt(SimulatedBin(i).currentAmount, Zero)
       /\ i \notin Kept
  /\ Kept # {}
  /\ analysis.totalBins > analysis.baseBins + analysis.quoteBins

\* the latest call's currentPrice is strictly above every bin's price
SweptAbove ==
  /\ pc = "simulated"
  /\ Len(initialBins) > 0
  /\ \A i \in 1 .. Len(initialBins) : RGt(lastSim.currentPrice, InitialBin(i).price)

\* what input bin i is worth once sold into quote: initialAmount * price for a
\* base bin, initialAmount for a quote bin
SoldValue(i) ==
  IF InitialBin(i).initialTokenType = "base"
  THEN RMul(InitialBin(i).initialAmount, InitialBin(i).price)
  ELSE InitialBin(i).initialAmount

\* C12 (as claimed): when currentPrice is strictly above every bin's price,
\* baseBins = 0 and totalValueInQuote is the sum over the initially-base bins of
\* initialAmount * price plus the sum of the initial quote amounts.
C12_SweepAbove ==
  SweptAbove =>
    /\ analysis.baseBins = 0
    /\ analysis.totalValueInQuote =
         RSum([i \in 1 .. Len(initialBins) |->
                 IF RGt(InitialBin(i).initialAmount, Zero) THEN SoldValue(i) ELSE Zero])

\* C12 (amended): when currentPrice is strictly above every bin's price,
\* baseBins = 0 and totalValueInQuote is that sum taken over the bins whose
\* resulting quote amount exceeds the dust tolerance 1e-12.
C12_SweepAboveDustFree ==
  SweptAbove =>
    /\ analysis.baseBins = 0
    /\ analysis.totalValueInQuote =
         RSum([i \in 1 .. Len(initialBins) |->
                 IF RGt(InitialBin(i).initialAmount, Zero) /\ RGt(SoldValue(i), Pow10(-12))
                 THEN SoldValue(i) ELSE Zero])

\* C12's case: a position with funded base bins and funded quote bins, all of it
\* sold into quote
C12_Witness ==
  /\ SweptAbove
  /\ \E i \in Kept : InitialBin(i).initialTokenType = "base"
  /\ \E i \in Kept : InitialBin(i).initialTokenType = "quote"
  /\ analysis.quoteBins = Cardinality(Kept)

\* the latest call was calculateStrategyWeights for the strategy
WeightsOf(strategy) ==
  /\ pc = "weights"
  /\ conv.op = "calculateStrategyWeights"
  /\ conv.strategy = strategy

\* the bins of the range on the quote side (ids <= activeBinId) and on the base side
QuoteSide == {id \in conv.minBinId .. conv.maxBinId : id <= conv.activeBinId}

BaseSide == {id \in conv.minBinId .. conv.maxBinId : id > conv.activeBinId}

C14_CurveWeights ==
  WeightsOf("curve") =>
    \A id \in QuoteSide \cup BaseSide :
      /\ id \in DOMAIN conv.out
      /\ conv.out[id] =
           Max(1, Cardinality(IF id \in QuoteSide THEN QuoteSide ELSE BaseSide)
                    - Abs(id - conv.activeBinId))

\* the positions of the initially-base bins getInitialBins returned
BaseBins == {i \in 1 .. Len(initialBins) : InitialBin(i).initialTokenType = "base"}

\* C15: for the spot strategy every base-typed bin getInitialBins returns has the
\* same initialValueInQuote as every other base-typed bin, within the
\* normalization tolerance.
C15_SpotShape ==
  (Built /\ params.strategy = "spot") =>
    \A i, j \in BaseBins :
      \/ InitialBin(i).initialValueInQuote = InitialBin(j).initialValueInQuote
      \/ WithinRelTol(InitialBin(i).initialValueInQuote, InitialBin(j).initialValueInQuote)

\* C15's case: a spot position with base bins at different prices that hold value
C15_Witness ==
  /\ Built
  /\ params.strategy = "spot"
  /\ \E i, j \in BaseBins :
       /\ InitialBin(i).price # InitialBin(j).price
       /\ RGt(InitialBin(i).initialValueInQuote, Zero)
       /\ RGt(InitialBin(j).initialAmount, Zero)

\* the fields of a bin that describe the initial position
InitialFields ==
  {"id", "price", "initialTokenType", "initialAmount", "initialValueInQuote", "displayValue"}

\* C16: runSimulation's output has the length and the order of its input, and
\* every output bin has the id, price, initialTokenType, initialAmount,
\* initialValueInQuote and displayValue of the input bin at its position.
C16_InitialFieldsStable ==
  pc = "simulated" =>
    /\ Len(simulatedBins) = Len(initialBins)
    /\ \A i \in 1 .. Len(initialBins) :
         \A f \in InitialFields : SimulatedBin(i)[f] = InitialBin(i)[f]

\* the latest runSimulation call had the arguments of the caller's first call
SameArgumentsAsFirst ==
  /\ pc = "simulated"
  /\ conv.op = "runSimulation"
  /\ prev.op = "runSimulation"
  /\ conv.currentPrice = prev.currentPrice
  /\ conv.initialPrice = prev.initialPrice

\* C17: two calls to runSimulation with identical arguments return identical
\* simulated bins and an identical Analysis, whatever runSimulation calls at
\* other prices were made in between.
C17_Determinism ==
  SameArgumentsAsFirst =>
    /\ conv.out.simulatedBins = prev.out.simulatedBins
    /\ conv.out.analysis = prev.out.analysis

\* C17's case: the first call repeated after a call at another price, on a
\* position the price has converted part of
C17_Witness ==
  /\ SameArgumentsAsFirst
  /\ calls > 2
  /\ prev.others > 0
  /\ conv.out.analysis.baseBins > 0
  /\ \E i \in 1 .. Len(conv.out.simulatedBins) :
       /\ conv.out.simulatedBins[i].initialTokenType = "quote"
       /\ conv.out.simulatedBins[i].currentTokenType = "base"

\* the latest call was reverseEngineerDecimals
DecimalsCall ==
  /\ pc = "decimals"
  /\ conv.op = "reverseEngineerDecimals"

Registered(key) == key \in DOMAIN TOKEN_DECIMALS_BY_ADDRESS

\* C18: with both token keys in the decimals registry reverseEngineerDecimals
\* returns the registry's baseDecimals and quoteDecimals and applyDecimalAdjustment
\* = true, whatever the observed price and bin step, and evaluates no candidate.
C18_KnownTokens ==
  (DecimalsCall /\ Registered(conv.mintX) /\ Registered(conv.mintY)) =>
    /\ conv.out.baseDecimals = JsNumber(TOKEN_DECIMALS_BY_ADDRESS[conv.mintX])
    /\ conv.out.quoteDecimals = JsNumber(TOKEN_DECIMALS_BY_ADDRESS[conv.mintY])
    /\ conv.out.applyDecimalAdjustment
    /\ conv.out.evaluated = 0
    /\ ~conv.out.threw

\* C18's case: both tokens known, in the order the defaults do not give, at a
\* price and a bin step the conversions reject
C18_Witness ==
  /\ DecimalsCall
  /\ conv.mintX = USDC
  /\ conv.mintY = SOL
  /\ conv.apiPrice = Zero
  /\ conv.binStep < 0
  /\ conv.out.baseDecimals = JsNumber(6)
  /\ conv.out.quoteDecimals = JsNumber(9)

\* C19: reverseEngineerDecimals never fails: for every input (observed price <= 0,
\* binStep <= 0, token keys absent from the registry included) it returns a record
\* and does not raise, and its quoteDecimals is the registry's value of the quote
\* key if the registry knows the key and 6 otherwise.
C19_NeverFails ==
  DecimalsCall =>
    /\ ~conv.out.threw
    /\ conv.out.quoteDecimals =
         IF Registered(conv.mintY)
         THEN JsNumber(TOKEN_DECIMALS_BY_ADDRESS[conv.mintY])
         ELSE JsNumber(6)

\* the fields of the state holding a value with its type, and the others
TypedFields ==
  {"currentPrice", "initialBins", "simulation", "selectedPool", "baseDecimals",
   "quoteDecimals", "lastAutoFilledToken", "lowerPricePercentage", "upperPricePercentage"}

PlainFields ==
  {"tokenSymbols", "applyDecimalAdjustment", "decimalsDetermined", "autoFill"}

\* equal values: of the same type and, unless the type has one value only, of the
\* same content
SameValue(a, b) ==
  /\ a.type = b.type
  /\ a.type \in {"string", "null", "array"} \/ a.value = b.value

\* C20: after handleClear, from any reachable state of the component, the seven
\* parameters, currentPrice, the initial bins, the simulation, the selected pool,
\* the token symbols, the base and quote decimals, applyDecimalAdjustment, the
\* decimals-determined flag, autoFill, lastAutoFilledToken and the range
\* percentages have the values they had when the component first mounted.
C20_ClearRestoresDefaults ==
  (pc = "ui" /\ ui.last = "handleClear") =>
    /\ \A f \in NumericParams : SameValue(ui.params[f], InitialState.params[f])
    /\ ui.params.strategy = InitialState.params.strategy
    /\ \A f \in TypedFields : SameValue(ui[f], InitialState[f])
    /\ \A f \in PlainFields : ui[f] = InitialState[f]

\* the base decimals tried for the latest call, in the order of evaluation: what
\* the registry holds for the base key or, for a key it lacks, the default 9 and
\* then the others of its window 6 .. 12, ascending
CandidatesInOrder ==
  IF RegistryGet(conv.mintX) = Undefined
  THEN <<JsNumber(9), JsNumber(6), JsNumber(7), JsNumber(8), JsNumber(10), JsNumber(11),
         JsNumber(12)>>
  ELSE <<RegistryGet(conv.mintX)>>

\* the trials in the order of evaluation, each candidate with the adjustment and
\* then without it, and the difference |observedPrice - price of its bin| of each
TrialsInOrder ==
  [k \in 1 .. 2 * Len(CandidatesInOrder) |->
     [baseDecimals |-> CandidatesInOrder[(k + 1) \div 2],
      useAdjustment |-> k % 2 = 1,
      difference |-> CandidateDifference(conv.apiPrice, conv.binStep,
                                         CandidatesInOrder[(k + 1) \div 2],
                                         getTokenDecimalsByAddress(conv.mintY, 6),
                                         k % 2 = 1).value]]

\* trial k has the minimum difference and is the first that has it
FirstMinimum(trials, k) ==
  /\ RLt(trials[k].difference, Infinity)
  /\ \A j \in DOMAIN trials : ~RLt(trials[j].difference, trials[k].difference)
  /\ \A j \in 1 .. (k - 1) : ~RLe(trials[j].difference, trials[k].difference)

\* what the search is to return for the trials
MinimumReturned(trials, out) ==
  IF \A k \in DOMAIN trials : ~RLt(trials[k].difference, Infinity)
  THEN out.baseDecimals = JsNumber(9) /\ out.applyDecimalAdjustment
  ELSE \E k \in DOMAIN trials :
         /\ FirstMinimum(trials, k)
         /\ out.baseDecimals = trials[k].baseDecimals
         /\ out.applyDecimalAdjustment = trials[k].useAdjustment

AmountsCall ==
  /\ pc = "amounts"
  /\ conv.op = "weightsToAmounts"

\* the ids of the weight map on the quote side and on the base side
QuoteBinIds == {id \in DOMAIN conv.weights : id <= conv.activeBinId}

BaseBinIds == {id \in DOMAIN conv.weights : id > conv.activeBinId}

\* the sum of the quote amounts the call gave to the bins ids
RECURSIVE QuoteAmountSum(_)
QuoteAmountSum(ids) ==
  IF ids = {} THEN Zero
  ELSE LET id == CHOOSE x \in ids : TRUE
       IN RAdd(conv.out[id].quoteAmount, QuoteAmountSum(ids \ {id}))

\* the quote-side bins hold what the weight sum gives them
QuoteSideAllocated(weightSum) ==
  /\ \A id \in QuoteBinIds :
       /\ id \in DOMAIN conv.out
       /\ conv.out[id].baseAmount = Zero
       /\ conv.out[id].valueInQuote = conv.out[id].quoteAmount
       /\ conv.out[id].quoteAmount =
            IF weightSum = 0 \/ conv.totalQuoteAmount = Zero
            THEN Zero
            ELSE RDiv(RMul(conv.totalQuoteAmount, R(conv.weights[id], 1)), R(weightSum, 1))
  /\ (QuoteBinIds # {} /\ weightSum # 0) =>
       QuoteAmountSum(QuoteBinIds) = conv.totalQuoteAmount

\* C22: weightsToAmounts gives every bin with id <= activeBinId quoteAmount =
\* totalQuoteAmount * weight(id) / (sum of the quote-side weights), baseAmount = 0
\* and valueInQuote = quoteAmount, so the quote amounts sum to totalQuoteAmount;
\* when the quote-side weight sum or totalQuoteAmount is 0, every quote-side bin
\* gets zeros only.
C22_QuoteAllocation ==
  AmountsCall => QuoteSideAllocated(SumWeights(conv.weights, QuoteBinIds))

\* C22's case: quote-side bins of different weights sharing a quote amount
C22_Witness ==
  /\ AmountsCall
  /\ RGt(conv.totalQuoteAmount, Zero)
  /\ \E i, j \in QuoteBinIds :
       /\ conv.weights[i] = 1
       /\ conv.weights[j] = 2
       /\ conv.out[j].quoteAmount = RMul(R(2, 1), conv.out[i].quoteAmount)
       /\ RGt(conv.out[i].quoteAmount, Zero)

\* the weight map is the one of spot: every bin weighs 1
SpotWeights == \A id \in DOMAIN conv.weights : conv.weights[id] = 1

\* the value every base bin of a spot position holds
SpotBinValue ==
  IF QuoteBinIds = {} THEN Zero
  ELSE RDiv(conv.totalQuoteAmount, R(Cardinality(QuoteBinIds), 1))

IdOf(price) ==
  getIdFromPrice(price, params.binStep, params.baseDecimals, params.quoteDecimals,
                 params.applyDecimalAdjustment)

\* the bins are those of minId .. maxId in ascending order, quote up to activeBinId
BinsOfRange(minId, maxId, activeBinId) ==
  /\ Len(initialBins) = maxId - minId + 1
  /\ \A i \in 1 .. Len(initialBins) :
       /\ InitialBin(i).id = minId + i - 1
       /\ InitialBin(i).initialTokenType =
            IF InitialBin(i).id <= activeBinId THEN "quote" ELSE "base"
  /\ \A i \in 1 .. (Len(initialBins) - 1) :
       RLt(InitialBin(i).price, InitialBin(i + 1).price)
  /\ \A i, j \in 1 .. Len(initialBins) :
       (InitialBin(i).initialTokenType = "quote" /\ InitialBin(j).initialTokenType = "base")
         => i < j

\* C24: for valid params the result of getInitialBins holds exactly one bin for
\* each id from minId = id(lowerPrice) to maxId = id(upperPrice), in strictly
\* ascending order of id and of price, and a bin is quote-typed iff its id <=
\* activeBinId = id(initialPrice) and base-typed otherwise, so every quote-typed
\* bin precedes every base-typed bin.
C24_BinStructure ==
  (Built /\ ~IsInvalidParams(params)) =>
    BinsOfRange(IdOf(params.lowerPrice), IdOf(params.upperPrice), IdOf(params.initialPrice))

\* C24's case: a position of at least three bins with bins of both types
C24_Witness ==
  /\ Built
  /\ ~IsInvalidParams(params)
  /\ Len(initialBins) >= 3
  /\ InitialBin(2).initialTokenType = "quote"
  /\ InitialBin(2).id = IdOf(params.initialPrice)
  /\ InitialBin(3).initialTokenType = "base"

\* every bin returned is of the token type
AllOfType(tokenType) ==
  /\ Len(initialBins) > 0
  /\ \A i \in 1 .. Len(initialBins) : InitialBin(i).initialTokenType = tokenType

\* the position is one-sided: the active bin is below the range or above it
BelowRange == IdOf(params.initialPrice) < IdOf(params.lowerPrice)

AboveRange == IdOf(params.initialPrice) > IdOf(params.upperPrice)

\* C25: when activeBinId lies outside [minId, maxId], getInitialBins raises no
\* error and returns bins of one token type only, base-typed when activeBinId <
\* minId and quote-typed when activeBinId > maxId: no bin returned holds any of
\* the other token's requested amount.
C25_OneSided ==
  (pc # "start" /\ ~IsInvalidParams(params)) =>
    /\ BelowRange => (pc # "threw" /\ AllOfType("base"))
    /\ AboveRange => (pc # "threw" /\ AllOfType("quote"))

\* C25's case: both amounts requested, the initial price below the range, and
\* bins that hold base tokens
C25_Witness ==
  /\ pc = "built"
  /\ ~IsInvalidParams(params)
  /\ BelowRange
  /\ RGt(params.quoteAmount, Zero)
  /\ RGt(params.baseAmount, Zero)
  /\ Len(initialBins) >= 2
  /\ RGt(InitialBin(1).initialAmount, Zero)
  /\ InitialBin(1).initialTokenType = "base"

\* C26 (as claimed): for every strategy and every activeBinId, inside, below or
\* above the range, calculateStrategyWeights gives a weight to exactly the bin ids
\* minBinId .. maxBinId and to no id outside, so that the side totals of
\* weightsToAmounts sum weights of bins of the position only.
C26_WeightDomain ==
  (pc = "weights" /\ conv.op = "calculateStrategyWeights") =>
    DOMAIN conv.out = conv.minBinId .. conv.maxBinId

\* two simulations of one position are at hand, the first at a price that is not
\* above the price of the latest
TwoSimulationsRising ==
  /\ pc = "simulated"
  /\ conv.op = "runSimulation"
  /\ prev.op = "runSimulation"
  /\ RLe(prev.currentPrice, conv.currentPrice)

\* the funded bins of a result, by current token type
Funded(bins, tokenType) ==
  {i \in 1 .. Len(bins) : RGt(bins[i].initialAmount, Zero) /\ bins[i].currentTokenType = tokenType}

\* the funded bins are quote below the price and base at it and above it
Partitioned(bins, currentPrice) ==
  /\ \A i \in Funded(bins, "base") : \A j \in Funded(bins, "quote") :
       ~RLt(bins[i].price, bins[j].price)
  /\ \A i \in Funded(bins, "quote") : RLt(bins[i].price, currentPrice)
  /\ \A i \in Funded(bins, "base") : RLe(currentPrice, bins[i].price)
  /\ \A i \in 1 .. Len(bins) :
       RGt(bins[i].initialAmount, Zero) => bins[i].currentTokenType \in {"base", "quote"}

\* C27: in the output of runSimulation no base-typed bin with initialAmount > 0
\* has a lower price than a quote-typed bin with initialAmount > 0: the funded
\* bins priced below currentPrice are quote, those priced at or above it are
\* base; and a higher currentPrice never turns a quote-typed bin back into base.
C27_TypePartition ==
  /\ (pc = "simulated" /\ conv.op = "runSimulation") =>
       Partitioned(conv.out.simulatedBins, conv.currentPrice)
  /\ TwoSimulationsRising =>
       \A i \in 1 .. Len(prev.out.simulatedBins) :
         prev.out.simulatedBins[i].currentTokenType = "quote" =>
           conv.out.simulatedBins[i].currentTokenType = "quote"

\* C27's case: a price between the bins, funded bins of both types, one of them
\* converted, and a second simulation at a higher price that converts one more
C27_Witness ==
  /\ TwoSimulationsRising
  /\ Funded(prev.out.simulatedBins, "quote") # {}
  /\ \E i \in Funded(prev.out.simulatedBins, "base") :
       /\ prev.out.simulatedBins[i].initialTokenType = "quote"
       /\ conv.out.simulatedBins[i].currentTokenType = "quote"
  /\ Funded(conv.out.simulatedBins, "base") # {}

\* the position simulated holds no negative amount and its bins have prices > 0
OrdinaryPosition(bins) ==
  \A i \in 1 .. Len(bins) : ~RLt(bins[i].initialAmount, Zero) /\ RGt(bins[i].price, Zero)

\* C28 (as claimed): for a fixed list of bins with non-negative initial amounts
\* and positive prices, Analysis.totalValueInQuote of runSimulation is
\* non-decreasing in currentPrice: p1 <= p2 implies totalValue(p1) <= totalValue(p2).
C28_ValueMonotonic ==
  (TwoSimulationsRising /\ OrdinaryPosition(conv.out.simulatedBins)) =>
    RLe(prev.out.analysis.totalValueInQuote, conv.out.analysis.totalValueInQuote)

\* no funded bin of the result holds dust, an amount the analysis leaves out
DustFree(bins) ==
  \A i \in 1 .. Len(bins) :
    RGt(bins[i].initialAmount, Zero) => RGt(bins[i].currentAmount, Pow10(-12))

\* C28 (amended): the total value is non-decreasing in currentPrice as long as no
\* funded bin holds dust (a current amount <= 1e-12) at the higher price.
C28_ValueMonotonicDustFree ==
  (TwoSimulationsRising /\ OrdinaryPosition(conv.out.simulatedBins)
     /\ DustFree(conv.out.simulatedBins)) =>
    RLe(prev.out.analysis.totalValueInQuote, conv.out.analysis.totalValueInQuote)

\* C28's case: a dust-free result at a price above the first one, where the
\* price has converted a bin and the value has grown
C28_Witness ==
  /\ TwoSimulationsRising
  /\ OrdinaryPosition(conv.out.simulatedBins)
  /\ DustFree(conv.out.simulatedBins)
  /\ RLt(prev.currentPrice, conv.currentPrice)
  /\ RLt(prev.out.analysis.totalValueInQuote, conv.out.analysis.totalValueInQuote)
  /\ \E i \in 1 .. Len(conv.out.simulatedBins) :
       /\ prev.out.simulatedBins[i].currentTokenType = "base"
       /\ conv.out.simulatedBins[i].currentTokenType = "quote"
       /\ RGt(conv.out.simulatedBins[i].currentAmount, Zero)

\* two calls on the same bins at the same currentPrice are at hand
SamePriceAsFirst ==
  /\ pc = "simulated"
  /\ conv.op = "runSimulation"
  /\ prev.op = "runSimulation"
  /\ conv.currentPrice = prev.currentPrice

\* C29: for a fixed bin list and currentPrice the simulated bins and the Analysis
\* of runSimulation are the same for every value of the initialPrice, baseDecimals
\* and quoteDecimals arguments.
C29_ReferenceArgumentsUnused ==
  SamePriceAsFirst =>
    /\ conv.out.simulatedBins = prev.out.simulatedBins
    /\ conv.out.analysis = prev.out.analysis

\* C29's case: two calls at one currentPrice that differ in each of the three
\* arguments, on a position the price has converted part of
C29_Witness ==
  /\ SamePriceAsFirst
  /\ calls = 2
  /\ conv.initialPrice # prev.initialPrice
  /\ conv.baseDecimals # prev.baseDecimals
  /\ conv.quoteDecimals # prev.quoteDecimals
  /\ conv.initialPrice # conv.currentPrice
  /\ conv.out.analysis.baseBins > 0
  /\ conv.out.analysis.quoteBins > 0
  /\ \E i \in 1 .. Len(conv.out.simulatedBins) :
       conv.out.simulatedBins[i].initialTokenType # conv.out.simulatedBins[i].currentTokenType

\* the answers so far that were pages
PagesRead == { i \in 1 .. Len(gen.answered) : gen.answered[i].kind = "page" }

\* a page after which no further page is to be requested
LastPage(response) == response.length < 100 \/ response.withVolume = 0

\* C30: fetchAllPairs requests pages 0, 1, 2, ... in order, each at most once;
\* it yields exactly one batch per page it fetched, in order, carrying the page;
\* after the first page with fewer than 100 pairs or with no pair of positive
\* volume it requests no further page, and that page's batch has shouldContinue
\* FALSE; after a failed fetch the error is rethrown and nothing more is yielded
\* or requested.
C30_Pagination ==
  /\ \A i \in 1 .. Len(gen.requested) : gen.requested[i] = i - 1
  /\ Len(gen.answered) \in {Len(gen.requested), Len(gen.requested) - 1}
  /\ Len(gen.yielded) = Cardinality(PagesRead)
  /\ \A i \in 1 .. Len(gen.yielded) :
       /\ gen.answered[i].kind = "page"
       /\ gen.yielded[i].page = i - 1
       /\ gen.yielded[i].pairs.length = gen.answered[i].length
       /\ gen.yielded[i].pairs.withVolume = gen.answered[i].withVolume
  /\ \A i \in PagesRead :
       LastPage(gen.answered[i]) =>
         /\ Len(gen.requested) = i
         /\ gen.yielded[i].shouldContinue = FALSE
  /\ \A i \in 1 .. Len(gen.answered) :
       gen.answered[i].kind # "page" =>
         /\ Len(gen.requested) = i
         /\ Len(gen.yielded) = i - 1
         /\ gen.pc = "completed"
         /\ gen.thrown = gen.answered[i].kind

\* a second page was requested after a full page with volume, it was full and
\* without volume, and the generator completed after yielding it
C30_Witness ==
  /\ pc = "pages"
  /\ gen.pc = "completed"
  /\ gen.thrown = "none"
  /\ Len(gen.yielded) = 2
  /\ gen.yielded[1].shouldContinue
  /\ gen.answered[2].length = 100
  /\ gen.answered[2].withVolume = 0
  /\ ~gen.yielded[2].shouldContinue
  /\ gen.hasMorePages = FALSE

====
